---------------------------- MODULE Spec2Model ----------------------------
(***************************************************************************)
(* The UCloud cloud provider of pkg/cloudprovider/providers/ucloud:        *)
(*   - ulb.go:    the request signer (toParams, Params.toQueryString) and   *)
(*                the typed API client UClient, one method per remote call; *)
(*   - ucloud.go: the provider adapter Cloud, whose operations are fixed    *)
(*                sequences of UClient calls.                               *)
(*                                                                         *)
(* Five specifications share the module:                                   *)
(*   SpecSign   the signer as a pure function of a parameter record;        *)
(*   SpecClient one UClient method call, from the caller's record to the    *)
(*              URL fetched and the (response, error) pair returned;        *)
(*   Spec       the adapter operations, one step per remote call, the       *)
(*              remote API answering each call in any way it can;           *)
(*   SpecRace   two create or update operations on one service, their       *)
(*              remote calls interleaved;                                   *)
(*   SpecShared two UClient method calls and two adapter operations on one  *)
(*              Cloud object, their steps interleaved.                      *)
(*                                                                         *)
(* A Go string is a sequence of one-character strings, so that byte order,  *)
(* concatenation and URL escaping are computed and not assumed.             *)
(***************************************************************************)
EXTENDS Integers, Sequences, FiniteSets, TLC

VARIABLES
    param,      \* SpecSign: the parameter struct handed to QueryString()
    params,     \* SpecSign: the Params map built by toParams
    hashed,     \* SpecSign: the string written to the SHA-1 hash
    qs,         \* SpecSign: the string returned by toQueryString
    stage,      \* SpecSign: "struct", "map" or "signed"
    cloud,      \* the Cloud object: the embedded UClient (BaseURL, PublicKey,
                \* PrivateKey) and Region, Zone, ProjectID
    creq,       \* SpecClient: the method called and the caller's parameter record
    gets,       \* SpecClient: the URLs fetched with http.Get, in order
    cret,       \* SpecClient: the (response, error) pair the method returned
    cpc,        \* SpecClient: "call" before the method runs, "returned" after
    got,        \* SpecClient: what each http.Get and the decoding of its body gave
    caller,     \* SpecShared: for each goroutine inside a UClient method, the
                \* record its caller holds, the method's copies of the receiver
                \* and of the record, and what the method got and returned
    frame,      \* Spec: for each running adapter operation, its arguments, the
                \* remote call it is about to make, its locals and its result
    calls       \* Spec: the UClient calls made so far, each with the parameter
                \* record passed and the (response, error) pair returned

signVars == <<param, params, hashed, qs, stage>>
clientVars == <<creq, gets, cret, cpc, got, caller>>
adapterVars == <<frame, calls>>
vars == <<param, params, hashed, qs, stage, cloud, creq, gets, cret, cpc, got, caller, frame, calls>>

(***************************************************************************)
(* Strings                                                                 *)
(***************************************************************************)

\* The printable ASCII characters in byte order: Ascii[i] is the byte 31 + i.
\* The double quote, the backslash and the backtick, which no string of the
\* model holds, are spelled out.
Ascii ==
    << " ", "!", "QUOTE", "#", "$", "%", "&", "'", "(", ")", "*", "+", ",", "-", ".", "/",
       "0", "1", "2", "3", "4", "5", "6", "7", "8", "9", ":", ";", "<", "=", ">", "?",
       "@", "A", "B", "C", "D", "E", "F", "G", "H", "I", "J", "K", "L", "M", "N", "O",
       "P", "Q", "R", "S", "T", "U", "V", "W", "X", "Y", "Z", "[", "BACKSLASH", "]", "^", "_",
       "BACKTICK", "a", "b", "c", "d", "e", "f", "g", "h", "i", "j", "k", "l", "m", "n", "o",
       "p", "q", "r", "s", "t", "u", "v", "w", "x", "y", "z", "{", "|", "}", "~" >>

CodeOf == [c \in {Ascii[i] : i \in DOMAIN Ascii} |-> 31 + (CHOOSE i \in DOMAIN Ascii : Ascii[i] = c)]

\* Go's string comparison a < b: byte-wise lexicographic.
RECURSIVE Less(_, _)
Less(a, b) ==
    IF b = <<>> THEN FALSE
    ELSE IF a = <<>> THEN TRUE
    ELSE IF Head(a) = Head(b) THEN Less(Tail(a), Tail(b))
    ELSE CodeOf[Head(a)] < CodeOf[Head(b)]

Digits == <<"0", "1", "2", "3", "4", "5", "6", "7", "8", "9">>
LowerHex == Digits \o <<"a", "b", "c", "d", "e", "f">>
UpperHex == Digits \o <<"A", "B", "C", "D", "E", "F">>

RECURSIVE NatStr(_)
NatStr(n) ==
    IF n < 10 THEN <<Digits[n + 1]>>
    ELSE NatStr(n \div 10) \o <<Digits[(n % 10) + 1]>>

\* Mutant of Sprintv: an int field of value 0 is rendered as the empty string,
\* as a field left unset would be.
SprintvOmitZero(kind, v) ==
    IF kind = "int" THEN (IF v = 0 THEN <<>> ELSE IF v < 0 THEN <<"-">> \o NatStr(-v) ELSE NatStr(v))
    ELSE v

\* fmt.Sprintf("%v", value) of a string or int struct field.
Sprintv(kind, v) ==
    IF kind = "int" THEN (IF v < 0 THEN <<"-">> \o NatStr(-v) ELSE NatStr(v))
    ELSE v

\* Go map semantics: assignment, and a read that yields "" for a missing key.
EmptyMap == [k \in {} |-> <<>>]
MapSet(m, k, v) == [x \in DOMAIN m \cup {k} |-> IF x = k THEN v ELSE m[x]]
MapGet(m, k) == IF k \in DOMAIN m THEN m[k] ELSE <<>>

(***************************************************************************)
(* Parameter structs (ulb.go): the json tag of each field, in declaration  *)
(* order, and which fields are ints.                                       *)
(***************************************************************************)

tAction == <<"A","c","t","i","o","n">>
tPublicKey == <<"P","u","b","l","i","c","K","e","y">>
tPrivateKey == <<"P","r","i","v","a","t","e","K","e","y">>
tSignature == <<"S","i","g","n","a","t","u","r","e">>
tProjectId == <<"P","r","o","j","e","c","t","I","d">>
tRegion == <<"R","e","g","i","o","n">>
t_zone == <<"z","o","n","e">>
tUHostIds_n == <<"U","H","o","s","t","I","d","s",".","n">>
t_tag == <<"t","a","g">>
t_offset == <<"o","f","f","s","e","t">>
t_limit == <<"l","i","m","i","t">>
tOffset == <<"O","f","f","s","e","t">>
tLimit == <<"L","i","m","i","t">>
tULBId == <<"U","L","B","I","d">>
tULBName == <<"U","L","B","N","a","m","e">>
tTag == <<"T","a","g">>
tRemark == <<"R","e","m","a","r","k">>
tOuterMode == <<"O","u","t","e","r","M","o","d","e">>
tInnerMode == <<"I","n","n","e","r","M","o","d","e">>
tChargeType == <<"C","h","a","r","g","e","T","y","p","e">>
tName == <<"N","a","m","e">>
tVServerName == <<"V","S","e","r","v","e","r","N","a","m","e">>
tListenType == <<"L","i","s","t","e","n","T","y","p","e">>
tProtocol == <<"P","r","o","t","o","c","o","l">>
tFrontendPort == <<"F","r","o","n","t","e","n","d","P","o","r","t">>
tMethod == <<"M","e","t","h","o","d">>
tPersistenceType == <<"P","e","r","s","i","s","t","e","n","c","e","T","y","p","e">>
tPersistenceInfo == <<"P","e","r","s","i","s","t","e","n","c","e","I","n","f","o">>
tClientTimeout == <<"C","l","i","e","n","t","T","i","m","e","o","u","t">>
tVServerId == <<"V","S","e","r","v","e","r","I","d">>
tResourceType == <<"R","e","s","o","u","r","c","e","T","y","p","e">>
tResourceId == <<"R","e","s","o","u","r","c","e","I","d">>
tPort == <<"P","o","r","t">>
tEnabled == <<"E","n","a","b","l","e","d">>
tBackendId == <<"B","a","c","k","e","n","d","I","d">>
tOperatorName == <<"O","p","e","r","a","t","o","r","N","a","m","e">>
tBandwidth == <<"B","a","n","d","w","i","d","t","h">>
tQuantity == <<"Q","u","a","n","t","i","t","y">>
tPayMode == <<"P","a","y","M","o","d","e">>
tShareBandwidth == <<"S","h","a","r","e","B","a","n","d","w","i","d","t","h">>
tCouponId == <<"C","o","u","p","o","n","I","d">>
tEIPId == <<"E","I","P","I","d">>

StructType(tags, ints) ==
    [i \in DOMAIN tags |->
        [tag |-> tags[i], kind |-> IF tags[i] \in ints THEN "int" ELSE "string"]]

DescribeUHostInstanceParam ==
    StructType(<<tAction, tPublicKey, tPrivateKey, tSignature, tProjectId, tRegion,
        t_zone, tUHostIds_n, t_tag, t_offset, t_limit>>, {t_offset, t_limit})
DescribeULBParam ==
    StructType(<<tAction, tPublicKey, tPrivateKey, tSignature, tProjectId, tRegion,
        tOffset, tLimit, tULBId>>, {tOffset, tLimit})
CreateULBParam ==
    StructType(<<tAction, tPublicKey, tPrivateKey, tSignature, tProjectId, tRegion,
        tULBName, tTag, tRemark, tOuterMode, tInnerMode, tChargeType>>, {})
DeleteULBParam ==
    StructType(<<tAction, tPublicKey, tPrivateKey, tSignature, tProjectId, tRegion,
        tULBId>>, {})
UpdateULBAttributeParam ==
    StructType(<<tAction, tPublicKey, tPrivateKey, tSignature, tProjectId, tRegion,
        tULBId, tName, tTag, tRemark>>, {})
CreateVServerParam ==
    StructType(<<tAction, tPublicKey, tPrivateKey, tSignature, tProjectId, tRegion,
        tULBId, tVServerName, tListenType, tProtocol, tFrontendPort, tMethod,
        tPersistenceType, tPersistenceInfo, tClientTimeout>>, {tFrontendPort,
        tClientTimeout})
DeleteVServerParam ==
    StructType(<<tAction, tPublicKey, tPrivateKey, tSignature, tProjectId, tRegion,
        tULBId, tVServerId>>, {})
UpdateVServerAttributeParam ==
    StructType(<<tAction, tPublicKey, tPrivateKey, tSignature, tProjectId, tRegion,
        tULBId, tVServerId, tVServerName, tProtocol, tMethod, tPersistenceType,
        tPersistenceInfo, tClientTimeout>>, {tClientTimeout})
AllocateBackendParam ==
    StructType(<<tAction, tPublicKey, tPrivateKey, tSignature, tProjectId, tRegion,
        tULBId, tVServerId, tResourceType, tResourceId, tPort, tEnabled>>, {tPort,
        tEnabled})
UpdateBackendAttributeParam ==
    StructType(<<tAction, tPublicKey, tPrivateKey, tSignature, tProjectId, tRegion,
        tULBId, tBackendId, tPort, tEnabled>>, {tPort, tEnabled})
ReleaseBackendParam ==
    StructType(<<tAction, tPublicKey, tPrivateKey, tSignature, tProjectId, tRegion,
        tULBId, tBackendId>>, {})
AllocateEIPParam ==
    StructType(<<tAction, tPublicKey, tPrivateKey, tSignature, tRegion, tOperatorName,
        tBandwidth, t_tag, tChargeType, tQuantity, tPayMode, tShareBandwidth, tCouponId,
        tName, tRemark>>, {tBandwidth, tQuantity})
ReleaseEIPParam ==
    StructType(<<tAction, tPublicKey, tPrivateKey, tSignature, tRegion, tEIPId>>, {})
BindEIPParam ==
    StructType(<<tAction, tPublicKey, tPrivateKey, tSignature, tRegion, tEIPId,
        tResourceType, tResourceId>>, {})
UnBindEIPParam ==
    StructType(<<tAction, tPublicKey, tPrivateKey, tSignature, tRegion, tEIPId,
        tResourceType, tResourceId>>, {})
vDescribeULB == <<"D","e","s","c","r","i","b","e","U","L","B">>
vEvil == <<"E","v","i","l">>
vPub == <<"p","u","b">>
vSecret == <<"s","e","c","r","e","t">>
vOtherPub == <<"p","u","b","2">>
vOtherSecret == <<"s","3","c","r","3","t">>
vForged == <<"f","0">>
vRegion == <<"c","n","-","b","j","2">>
vProject == <<"o","r","g","-","1">>
vOdd == <<"a"," ","b","&","c","=","d","/","e">>
vBaseURL == <<"h","t","t","p",":","/","/","a","p","i">>

(***************************************************************************)
(* The signer: toParams and Params.toQueryString                           *)
(***************************************************************************)

\* toParams: params[tag] = fmt.Sprintf("%v", value), field by field.
RECURSIVE toParamsLoop(_, _, _, _)
toParamsLoop(F, vals, i, m) ==
    IF i > Len(F) THEN m
    ELSE toParamsLoop(F, vals, i + 1,
                      MapSet(m, F[i].tag, Sprintv(F[i].kind, vals[F[i].tag])))

toParams(p) == toParamsLoop(p.fields, p.vals, 1, EmptyMap)

\* for k, v := range p: the keys with a non-empty value, in the order the map
\* is visited.
CollectKeys(p, visit) == SelectSeq(visit, LAMBDA k : p[k] # <<>>)

\* Mutant of Insert: the key is put first, wherever it belongs.
InsertFirst(sorted, k) == <<k>> \o sorted

\* sort.Strings
RECURSIVE Insert(_, _)
Insert(sorted, k) ==
    IF sorted = <<>> THEN <<k>>
    ELSE IF Less(k, Head(sorted)) THEN <<k>> \o sorted
    ELSE <<Head(sorted)>> \o Insert(Tail(sorted), k)

\* Mutant of SortStrings: the keys are left in the order the map was visited.
SortStringsNoSort(keys) == keys

RECURSIVE SortStrings(_)
SortStrings(keys) ==
    IF keys = <<>> THEN <<>>
    ELSE Insert(SortStrings(Tail(keys)), Head(keys))

\* Mutant of SignLoop: PrivateKey and Signature are signed like any other field.
RECURSIVE SignLoopNoSkip(_, _)
SignLoopNoSkip(keys, p) ==
    IF keys = <<>> THEN <<>>
    ELSE Head(keys) \o p[Head(keys)] \o SignLoopNoSkip(Tail(keys), p)

\* The first loop over the sorted keys: s = s + k + p[k].
RECURSIVE SignLoop(_, _)
SignLoop(keys, p) ==
    IF keys = <<>> THEN <<>>
    ELSE (IF Head(keys) = tPrivateKey \/ Head(keys) = tSignature THEN <<>>
          ELSE Head(keys) \o p[Head(keys)])
         \o SignLoop(Tail(keys), p)

\* s after s += p["PrivateKey"]: what io.WriteString hands to the hash.
SigningInput(p, visit) ==
    SignLoop(SortStrings(CollectKeys(p, visit)), p) \o MapGet(p, tPrivateKey)

\* h.Sum(nil). SHA-1 is kept as an ideal digest: the digest of s stands for
\* the bytes of s, so that two inputs have equal digests exactly when they are
\* equal. The width of the digest is not modelled.
Sha1Sum(s) == [i \in DOMAIN s |-> CodeOf[s[i]]]

\* fmt.Sprintf("%x", bytes): two lower-case hex digits per byte.
SprintfHex(bytes) ==
    [i \in 1..(2 * Len(bytes)) |->
        LET b == bytes[(i + 1) \div 2]
        IN  IF i % 2 = 1 THEN LowerHex[(b \div 16) + 1] ELSE LowerHex[(b % 16) + 1]]

\* url.QueryEscape: letters, digits and - _ . ~ are kept, a space becomes +,
\* every other byte becomes %XX.
Unreserved ==
    {Ascii[i] : i \in 17..26} \cup {Ascii[i] : i \in 34..59}
        \cup {Ascii[i] : i \in 66..91} \cup {"-", "_", ".", "~"}

EscapeByte(c) ==
    IF c \in Unreserved THEN <<c>>
    ELSE IF c = " " THEN <<"+">>
    ELSE <<"%", UpperHex[(CodeOf[c] \div 16) + 1], UpperHex[(CodeOf[c] % 16) + 1]>>

\* The escaped bytes, concatenated (the string is halved to keep the
\* evaluation shallow).
RECURSIVE QueryEscape(_)
QueryEscape(s) ==
    IF s = <<>> THEN <<>>
    ELSE IF Len(s) = 1 THEN EscapeByte(s[1])
    ELSE QueryEscape(SubSeq(s, 1, Len(s) \div 2))
            \o QueryEscape(SubSeq(s, (Len(s) \div 2) + 1, Len(s)))

\* url.Values{k: {v}}.Encode()
Encode(k, v) == QueryEscape(k) \o <<"=">> \o QueryEscape(v)

\* The second loop over the sorted keys: qs = qs + "&" + v.Encode().
RECURSIVE QueryLoop(_, _)
QueryLoop(keys, p) ==
    IF keys = <<>> THEN <<>>
    ELSE (IF Head(keys) = tPrivateKey \/ Head(keys) = tSignature THEN <<>>
          ELSE <<"&">> \o Encode(Head(keys), p[Head(keys)]))
         \o QueryLoop(Tail(keys), p)

toQueryString(p, visit) ==
    QueryLoop(SortStrings(CollectKeys(p, visit)), p)
        \o <<"&">> \o Encode(tSignature, SprintfHex(Sha1Sum(SigningInput(p, visit))))

(***************************************************************************)
(* SpecSign: the signer applied to bounded inputs                          *)
(***************************************************************************)

\* The number of fields of a parameter struct the caller sets to a non-zero
\* value.
MaxFilled == 3

\* A map of at most this many keys is visited in every order; a larger one in
\* the rotations of one enumeration of its keys and of the reverse.
MaxPermKeys == 3

IntChoices == {0, 100}

StrChoices(tag) ==
    CASE tag = tAction     -> {<<>>, vDescribeULB}
      [] tag = tPublicKey  -> {<<>>, vPub}
      [] tag = tPrivateKey -> {<<>>, vSecret}
      [] tag = tSignature  -> {<<>>, vForged}
      [] tag = tRegion     -> {<<>>, vRegion}
      [] tag = tProjectId  -> {<<>>, vProject}
      [] OTHER             -> {<<>>, vOdd}

ZeroValue(f) == IF f.kind = "int" THEN 0 ELSE <<>>
FieldChoices(f) == IF f.kind = "int" THEN IntChoices ELSE StrChoices(f.tag)

\* The values of the struct type F (fields i..Len(F)) with at most n fields set.
RECURSIVE StructVals(_, _, _)
StructVals(F, i, n) ==
    IF i > Len(F) THEN {EmptyMap}
    ELSE {MapSet(m, F[i].tag, ZeroValue(F[i])) : m \in StructVals(F, i + 1, n)}
         \cup (IF n = 0 THEN {}
               ELSE {MapSet(m, F[i].tag, v) :
                        m \in StructVals(F, i + 1, n - 1),
                        v \in FieldChoices(F[i]) \ {ZeroValue(F[i])}})

SignTypes == {DescribeULBParam, DescribeUHostInstanceParam, AllocateBackendParam}

SignStructs ==
    UNION {{[fields |-> F, vals |-> v] : v \in StructVals(F, 1, MaxFilled)} :
              F \in SignTypes}

NoStruct == [fields |-> <<>>, vals |-> EmptyMap]

\* Params maps handed to toQueryString directly: any keys among RawKeys, each
\* with an empty or a non-empty value.
RawKeys == <<tAction, tRegion, tLimit, tPrivateKey, tSignature>>
RawValue(k) == IF k = tLimit THEN NatStr(100) ELSE CHOOSE v \in StrChoices(k) : v # <<>>

RECURSIVE RawMapsFrom(_)
RawMapsFrom(i) ==
    IF i > Len(RawKeys) THEN {EmptyMap}
    ELSE LET rest == RawMapsFrom(i + 1)
         IN  rest \cup {MapSet(m, RawKeys[i], v) : m \in rest, v \in {<<>>, RawValue(RawKeys[i])}}

RawMaps == RawMapsFrom(1)

RECURSIVE SeqOf(_)
SeqOf(S) == IF S = {} THEN <<>> ELSE LET x == CHOOSE x \in S : TRUE IN <<x>> \o SeqOf(S \ {x})

RECURSIVE Perms(_)
Perms(S) == IF S = {} THEN {<<>>} ELSE UNION {{<<x>> \o q : q \in Perms(S \ {x})} : x \in S}

Reverse(q) == [i \in DOMAIN q |-> q[Len(q) + 1 - i]]
Rotations(q) == {SubSeq(q, i, Len(q)) \o SubSeq(q, 1, i - 1) : i \in DOMAIN q}

\* The orders in which range may visit the keys of a map.
VisitOrders(S) ==
    IF Cardinality(S) <= MaxPermKeys THEN Perms(S)
    ELSE Rotations(SeqOf(S)) \cup Rotations(Reverse(SeqOf(S)))

\* The variables of the other specifications, at rest.
NoCloud == [BaseURL |-> <<>>, PublicKey |-> <<>>, PrivateKey |-> <<>>,
            Region |-> <<>>, Zone |-> <<>>, ProjectID |-> <<>>]
NoCall == [method |-> "", p |-> NoStruct]
NoReturn == [resp |-> [nil |-> TRUE], err |-> [kind |-> "nil", call |-> "", text |-> ""]]
NoFrames == [p \in {} |-> NoCall]

ClientAtRest ==
    /\ creq = NoCall
    /\ gets = <<>>
    /\ cret = NoReturn
    /\ cpc = "rest"
    /\ got = <<>>
    /\ caller = NoFrames

AdapterAtRest ==
    /\ frame = NoFrames
    /\ calls = <<>>

InitSign ==
    /\ cloud = NoCloud
    /\ ClientAtRest
    /\ AdapterAtRest
    /\ \/ param \in SignStructs /\ params = EmptyMap /\ stage = "struct"
       \/ param = NoStruct /\ params \in RawMaps /\ stage = "map"
    /\ hashed = <<>>
    /\ qs = <<>>

\* func (p XParam) QueryString(): params := toParams(p)
ToParams ==
    /\ stage = "struct"
    /\ params' = toParams(param)
    /\ stage' = "map"
    /\ UNCHANGED <<param, hashed, qs, cloud, clientVars, adapterVars>>

\* params.toQueryString()
ToQueryString ==
    /\ stage = "map"
    /\ \E visit \in VisitOrders(DOMAIN params) :
          /\ hashed' = SigningInput(params, visit)
          /\ qs' = toQueryString(params, visit)
    /\ stage' = "signed"
    /\ UNCHANGED <<param, params, cloud, clientVars, adapterVars>>

NextSign == ToParams \/ ToQueryString

SpecSign == InitSign /\ [][NextSign]_vars

(***************************************************************************)
(* What a reader of a query string sees: its pairs, as url.ParseQuery      *)
(* splits and unescapes them.  Used by the properties, not by the model.   *)
(***************************************************************************)

\* The segments of s between the occurrences of the character c.
SplitOn(s, c) ==
    LET cuts == {i \in DOMAIN s : s[i] = c} \cup {0, Len(s) + 1}
        Cut(j) == CHOOSE i \in cuts : Cardinality({x \in cuts : x < i}) = j - 1
    IN  [j \in 1..(Cardinality(cuts) - 1) |-> SubSeq(s, Cut(j) + 1, Cut(j + 1) - 1)]

HexVal(c) == (CHOOSE i \in DOMAIN UpperHex : UpperHex[i] = c \/ LowerHex[i] = c) - 1

\* url.QueryUnescape of a well-formed escaped string: %XX is a byte, + a space.
Unescape(s) ==
    LET Inside(i) == (i > 1 /\ s[i - 1] = "%") \/ (i > 2 /\ s[i - 2] = "%")
        starts == {i \in DOMAIN s : ~Inside(i)}
        Start(j) == CHOOSE i \in starts : Cardinality({x \in starts : x < i}) = j - 1
        Byte(i) == IF s[i] = "%" THEN Ascii[16 * HexVal(s[i + 1]) + HexVal(s[i + 2]) - 31]
                   ELSE IF s[i] = "+" THEN " "
                   ELSE s[i]
    IN  IF \A i \in DOMAIN s : s[i] \notin {"%", "+"} THEN s
        ELSE [j \in 1..Cardinality(starts) |-> Byte(Start(j))]

ParsePair(seg) ==
    LET eqs == {i \in DOMAIN seg : seg[i] = "="}
        cut == IF eqs = {} THEN Len(seg) + 1 ELSE CHOOSE i \in eqs : \A j \in eqs : i <= j
    IN  [name  |-> Unescape(SubSeq(seg, 1, cut - 1)),
         value |-> Unescape(SubSeq(seg, cut + 1, Len(seg)))]

\* The pairs of a query string, in the order they stand in it.
ParseQuery(q) ==
    LET segs == SelectSeq(SplitOn(q, "&"), LAMBDA g : g # <<>>)
    IN  [i \in DOMAIN segs |-> ParsePair(segs[i])]

\* The pairs named k among the parsed pairs ps.
Named(ps, k) == SelectSeq(ps, LAMBDA pr : pr.name = k)

\* The least string of a non-empty set, byte-wise.
LeastOf(S) == CHOOSE k \in S : \A j \in S : j = k \/ Less(k, j)

\* name+value of the keys K of map m, in ascending byte order of the names.
RECURSIVE ConcatAscending(_, _)
ConcatAscending(K, m) ==
    IF K = {} THEN <<>>
    ELSE LET k == LeastOf(K) IN k \o m[k] \o ConcatAscending(K \ {k}, m)

\* The pairs name=value (URL-escaped) of the keys K of map m, ascending, each
\* pair preceded by lead and followed by sep when another pair follows.
RECURSIVE PairsAscending(_, _, _, _)
PairsAscending(K, m, lead, sep) ==
    IF K = {} THEN <<>>
    ELSE LET k == LeastOf(K)
         IN  lead \o QueryEscape(k) \o <<"=">> \o QueryEscape(m[k])
                 \o (IF K = {k} THEN <<>> ELSE sep)
                 \o PairsAscending(K \ {k}, m, lead, sep)

SecretKeys == {tPrivateKey, tSignature}

\* The keys of a Params map that carry a non-empty value.
NonEmptyKeys(m) == {k \in DOMAIN m : m[k] # <<>>}

\* The fields of a struct that are neither "" nor 0.
NonZeroFields(p) ==
    {p.fields[i].tag : i \in {j \in DOMAIN p.fields : p.vals[p.fields[j].tag] # ZeroValue(p.fields[j])}}

\* The int fields of a struct that are 0.
ZeroIntFields(p) ==
    {p.fields[i].tag : i \in {j \in DOMAIN p.fields :
                                  p.fields[j].kind = "int" /\ p.vals[p.fields[j].tag] = 0}}

EmptyStringFields(p) ==
    {p.fields[i].tag : i \in {j \in DOMAIN p.fields :
                                  p.fields[j].kind = "string" /\ p.vals[p.fields[j].tag] = <<>>}}

FromStruct == param # NoStruct

(***************************************************************************)
(* Properties of the signer (SpecSign)                                     *)
(***************************************************************************)

\* The text a struct field is expected to contribute: a string as it is, an
\* int in decimal, 0 as "0".
FieldText(p, k) ==
    LET f == p.fields[CHOOSE i \in DOMAIN p.fields : p.fields[i].tag = k]
    IN  IF f.kind = "string" THEN p.vals[k]
        ELSE IF p.vals[k] = 0 THEN <<"0">>
        ELSE NatStr(p.vals[k])

FieldTexts(p) == [k \in {p.fields[i].tag : i \in DOMAIN p.fields} |-> FieldText(p, k)]

\* C1 as stated: a field that is "" or 0 is in neither the signed string nor
\* the query string, i.e. both are built from the fields that are neither "" nor 0.
C1_ZeroAndEmptyExcluded ==
    (stage = "signed" /\ FromStruct) =>
        /\ LET pairs == ParseQuery(qs)
           IN  \A k \in (EmptyStringFields(param) \cup ZeroIntFields(param)) \ {tSignature} :
                  Named(pairs, k) = <<>>
        /\ hashed = ConcatAscending(NonZeroFields(param) \ SecretKeys, FieldTexts(param))
                        \o param.vals[tPrivateKey]

\* C1 amended: a field whose value is the empty string is in neither the signed
\* string nor the query string; an int field of value 0 is rendered "0" and is
\* in both, as name+"0" in the signed string and name=0 in the query string.
C1_EmptyExcludedZeroIncluded ==
    (stage = "signed" /\ FromStruct) =>
        /\ LET pairs == ParseQuery(qs)
           IN  /\ \A k \in EmptyStringFields(param) \ {tSignature} : Named(pairs, k) = <<>>
               /\ \A k \in ZeroIntFields(param) :
                     Named(pairs, k) = <<[name |-> k, value |-> <<"0">>]>>
        /\ hashed = ConcatAscending((NonZeroFields(param) \cup ZeroIntFields(param)) \ SecretKeys,
                                    FieldTexts(param))
                        \o param.vals[tPrivateKey]

\* An AllocateBackendParam with Enabled = 0, an empty and a non-empty string
\* field has been signed.
C1_Witness ==
    /\ stage = "signed"
    /\ param.fields = AllocateBackendParam
    /\ param.vals[tEnabled] = 0
    /\ param.vals[tRegion] = <<>>
    /\ param.vals[tULBId] # <<>>

\* C2: the string hashed is name+value of the non-empty fields other than
\* PrivateKey and Signature, in ascending byte order of the names, followed by
\* the PrivateKey value; the Signature pair of the query string is the hex
\* digest of exactly that string.
C2_SignedString ==
    stage = "signed" =>
        LET expected == ConcatAscending(NonEmptyKeys(params) \ SecretKeys, params)
                            \o MapGet(params, tPrivateKey)
        IN  /\ hashed = expected
            /\ Named(ParseQuery(qs), tSignature)
                   = <<[name |-> tSignature, value |-> SprintfHex(Sha1Sum(expected))]>>

\* A map with a secret, a caller-supplied Signature and lower-case and
\* upper-case names has been signed.
C2_Witness ==
    /\ stage = "signed"
    /\ param.fields = DescribeUHostInstanceParam
    /\ params[tPrivateKey] = vSecret
    /\ params[tSignature] = vForged
    /\ params[tRegion] = vRegion

ScenarioMap ==
    [k \in {tAction, tRegion, tLimit, tPrivateKey} |->
        IF k = tAction THEN vDescribeULB
        ELSE IF k = tRegion THEN vRegion
        ELSE IF k = tLimit THEN NatStr(100)
        ELSE vSecret]

ScenarioSigned == 
    <<"A","c","t","i","o","n","D","e","s","c","r","i","b","e","U",
      "L","B","L","i","m","i","t","1","0","0",
      "R","e","g","i","o","n","c","n","-","b","j","2","s","e","c","r","e","t">>

ScenarioQuery == 
    <<"&","A","c","t","i","o","n","=","D","e","s","c","r","i","b","e","U","L","B",
      "&","L","i","m","i","t","=","1","0","0",
      "&","R","e","g","i","o","n","=","c","n","-","b","j","2",
      "&","S","i","g","n","a","t","u","r","e","=">>

SignatureEq == <<"S", "i", "g", "n", "a", "t", "u", "r", "e", "=">>

\* C3 as stated: the pairs joined by "&", the Signature pair last.
C3_JoinedByAmpersand ==
    stage = "signed" =>
        LET K == NonEmptyKeys(params) \ SecretKeys
        IN  qs = PairsAscending(K, params, <<>>, <<"&">>)
                    \o (IF K = {} THEN <<>> ELSE <<"&">>)
                    \o SignatureEq \o SprintfHex(Sha1Sum(hashed))

\* C3 amended: the query string is, for each non-empty field other than
\* PrivateKey and Signature in ascending byte order of the names, "&" followed
\* by the URL-escaped name=value, then "&Signature=<hex>": every pair, the
\* first included, is preceded by "&".  It holds no PrivateKey pair and exactly
\* one Signature pair, the computed one.
C3_QueryString ==
    stage = "signed" =>
        /\ qs = PairsAscending(NonEmptyKeys(params) \ SecretKeys, params, <<"&">>, <<>>)
                    \o <<"&">> \o SignatureEq \o SprintfHex(Sha1Sum(hashed))
        /\ LET pairs == ParseQuery(qs)
           IN  Named(pairs, tPrivateKey) = <<>> /\ Len(Named(pairs, tSignature)) = 1
        /\ params = ScenarioMap =>
              /\ hashed = ScenarioSigned
              /\ qs = ScenarioQuery \o SprintfHex(Sha1Sum(ScenarioSigned))

\* The scenario {Action: DescribeULB, Region: cn-bj2, Limit: 100} with secret
\* "secret" has been signed.
C3_Witness == stage = "signed" /\ params = ScenarioMap

(***************************************************************************)
(* The typed API client UClient (ulb.go:602-813)                           *)
(***************************************************************************)

\* The methods of UClient: the parameter struct each takes and the Action
\* its setKey writes.
Methods ==
    << [name |-> "DescribeULB", type |-> DescribeULBParam,
        action |-> <<"D","e","s","c","r","i","b","e","U","L","B">>],
       [name |-> "CreateULB", type |-> CreateULBParam,
        action |-> <<"C","r","e","a","t","e","U","L","B">>],
       [name |-> "UpdateULBAttribute", type |-> UpdateULBAttributeParam,
        action |-> <<"U","p","d","a","t","e","U","L","B","A","t","t","r","i","b","u","t","e">>],
       [name |-> "DeleteULB", type |-> DeleteULBParam,
        action |-> <<"D","e","l","e","t","e","U","L","B">>],
       [name |-> "CreateVServer", type |-> CreateVServerParam,
        action |-> <<"C","r","e","a","t","e","V","S","e","r","v","e","r">>],
       [name |-> "UpdateVServerAttribute", type |-> UpdateVServerAttributeParam,
        action |-> <<"U","p","d","a","t","e","V","S","e","r","v","e","r","A","t","t","r","i","b","u","t","e">>],
       [name |-> "DeleteVServer", type |-> DeleteVServerParam,
        action |-> <<"D","e","l","e","t","e","V","S","e","r","v","e","r">>],
       [name |-> "AllocateBackend", type |-> AllocateBackendParam,
        action |-> <<"A","l","l","o","c","a","t","e","B","a","c","k","e","n","d">>],
       [name |-> "UpdateBackendAttribute", type |-> UpdateBackendAttributeParam,
        action |-> <<"U","p","d","a","t","e","B","a","c","k","e","n","d","A","t","t","r","i","b","u","t","e">>],
       [name |-> "ReleaseBackend", type |-> ReleaseBackendParam,
        action |-> <<"R","e","l","e","a","s","e","B","a","c","k","e","n","d">>],
       [name |-> "AllocateEIP", type |-> AllocateEIPParam,
        action |-> <<"A","l","l","o","c","a","t","e","E","I","P">>],
       [name |-> "BindEIP", type |-> BindEIPParam,
        action |-> <<"B","i","n","d","E","I","P">>],
       [name |-> "UnbindEIP", type |-> UnBindEIPParam,
        action |-> <<"U","n","B","i","n","d","E","I","P">>],
       [name |-> "ReleaseEIP", type |-> ReleaseEIPParam,
        action |-> <<"R","e","l","e","a","s","e","E","I","P">>],
       [name |-> "DescribeUHostInstance", type |-> DescribeUHostInstanceParam,
        action |-> <<"D","e","s","c","r","i","b","e","U","H","o","s","t","I","n","s","t","a","n","c","e">>] >>

MethodNames == {Methods[i].name : i \in DOMAIN Methods}
Method(name) == Methods[CHOOSE i \in DOMAIN Methods : Methods[i].name = name]

\* Mutant of setKey: a field the caller has set is kept.
setKeyIfUnset(m, p, pubKey, privKey) ==
    [p EXCEPT !.vals = [k \in DOMAIN p.vals |->
        IF k \notin {tAction, tPublicKey, tPrivateKey} THEN p.vals[k]
        ELSE IF p.vals[k] # <<>> THEN p.vals[k]
        ELSE IF k = tAction THEN m.action
        ELSE IF k = tPublicKey THEN pubKey
        ELSE privKey]]

\* func (p *XParam) setKey(pubKey, privKey string)
setKey(m, p, pubKey, privKey) ==
    [p EXCEPT !.vals = [k \in DOMAIN p.vals |->
        IF k = tAction THEN m.action
        ELSE IF k = tPublicKey THEN pubKey
        ELSE IF k = tPrivateKey THEN privKey
        ELSE p.vals[k]]]

\* func (c UClient) GetQueryURL(p Parameter): c.BaseURL + "/?" + p.QueryString()
GetQueryURL(c, p, visit) == c.BaseURL \o <<"/", "?">> \o toQueryString(toParams(p), visit)

\* What the remote end of one http.Get can do: the transport fails; a body
\* arrives that json cannot decode; a body decodes to a record, whose RetCode
\* is 0 or not.
RetCodes == {0, 170}
Messages == {"", "denied"}
NoBody == [RetCode |-> 0, Message |-> ""]
NilResp == [nil |-> TRUE]

\* Go error values.  A transport or decode error is the one the failing call
\* produced; errors.New(text) carries its text; the sentinels are package
\* variables.
NoErr == [kind |-> "nil", call |-> "", text |-> ""]
CallErr(kind, name) == [kind |-> kind, call |-> name, text |-> ""]

\* Mutant of ClientReturn: on a transport error the method returns an empty
\* response record, not nil.
ClientReturnEmptyResponse(name, outcome, body) ==
    IF outcome = "transport"
    THEN [resp |-> [nil |-> FALSE] @@ NoBody, err |-> CallErr("transport", name)]
    ELSE [resp |-> [nil |-> FALSE] @@ body,
          err  |-> IF outcome = "decode" THEN CallErr("decode", name) ELSE NoErr]

\* Mutant of ClientReturn: a non-zero RetCode is returned as an error.
ClientReturnRetCodeError(name, outcome, body) ==
    IF outcome = "transport"
    THEN [resp |-> NilResp, err |-> CallErr("transport", name)]
    ELSE [resp |-> [nil |-> FALSE] @@ body,
          err  |-> IF outcome = "decode" THEN CallErr("decode", name)
                   ELSE IF body.RetCode # 0 THEN [kind |-> "generic", call |-> "", text |-> body.Message]
                   ELSE NoErr]

\* The (response, error) pair a method returns for the outcome of its GET,
\* body being the record the decoder filled: (nil, err) on a transport error,
\* (r, err) after Decode otherwise.
ClientReturn(name, outcome, body) ==
    IF outcome = "transport"
    THEN [resp |-> NilResp, err |-> CallErr("transport", name)]
    ELSE [resp |-> [nil |-> FALSE] @@ body,
          err  |-> IF outcome = "decode" THEN CallErr("decode", name) ELSE NoErr]

\* The parameter records a caller passes: any of Action, PublicKey, PrivateKey
\* and Signature set or not, the fields of the operation all unset or all set.
CredTags == {tAction, tPublicKey, tPrivateKey, tSignature}
CallerCred(k) ==
    IF k = tAction THEN vEvil ELSE IF k = tPublicKey THEN vPub
    ELSE IF k = tPrivateKey THEN vSecret ELSE vForged

CallerStructs(T) ==
    {[fields |-> T,
      vals |-> [k \in {T[i].tag : i \in DOMAIN T} |->
                  LET f == T[CHOOSE i \in DOMAIN T : T[i].tag = k]
                  IN  IF k \in CredTags THEN (IF k \in creds THEN CallerCred(k) ELSE <<>>)
                      ELSE IF ~filled THEN ZeroValue(f)
                      ELSE IF f.kind = "int" THEN 100 ELSE vOdd]] :
        creds \in SUBSET CredTags, filled \in BOOLEAN}

ClientConfigs ==
    {[NoCloud EXCEPT !.BaseURL = vBaseURL, !.PublicKey = k[1], !.PrivateKey = k[2]] :
        k \in {<<vOtherPub, vOtherSecret>>, <<<<>>, <<>>>>}}

InitClient ==
    /\ param = NoStruct /\ params = EmptyMap /\ hashed = <<>> /\ qs = <<>> /\ stage = "rest"
    /\ AdapterAtRest
    /\ cloud \in ClientConfigs
    /\ \E name \in MethodNames :
          creq \in {[method |-> name, p |-> p] : p \in CallerStructs(Method(name).type)}
    /\ gets = <<>>
    /\ got = <<>>
    /\ caller = NoFrames
    /\ cret = NoReturn
    /\ cpc = "call"

\* One UClient method, from entry to return: setKey on the method's own copy of
\* p, one http.Get of the query URL, and the decoded response or the error.
Call ==
    /\ cpc = "call"
    /\ LET m == Method(creq.method)
           p == setKey(m, creq.p, cloud.PublicKey, cloud.PrivateKey)
       IN  /\ \E visit \in VisitOrders({m.type[i].tag : i \in DOMAIN m.type}) :
                 gets' = Append(gets, GetQueryURL(cloud, p, visit))
           /\ \E outcome \in {"transport", "decode", "ok"}, rc \in RetCodes, msg \in Messages :
                 /\ outcome = "transport" => rc = 0 /\ msg = ""
                 /\ got' = Append(got, [outcome |-> outcome,
                                         err |-> IF outcome = "ok" THEN NoErr ELSE CallErr(outcome, m.name),
                                         body |-> [RetCode |-> rc, Message |-> msg]])
                 /\ cret' = ClientReturn(m.name, outcome, [RetCode |-> rc, Message |-> msg])
    /\ cpc' = "returned"
    /\ UNCHANGED <<signVars, cloud, creq, caller, adapterVars>>

NextClient == Call

SpecClient == InitClient /\ [][NextClient]_vars

(***************************************************************************)
(* Properties of the client (SpecClient)                                   *)
(***************************************************************************)

\* url.Values.Get: the value of the first pair named k, "" when there is none.
ValueOf(pairs, k) == IF Named(pairs, k) = <<>> THEN <<>> ELSE Named(pairs, k)[1].value

\* The query part of a URL built on the base URL base.
QueryOf(url, base) == SubSeq(url, Len(base) + 3, Len(url))

\* What the remote end checks: the Signature pair is the digest of name+value
\* of the other pairs, in ascending order of the names, followed by the secret
\* of the account.
VerifiesWith(pairs, secret) ==
    LET names == {pairs[i].name : i \in DOMAIN pairs} \ {tSignature}
        m == [k \in names |-> ValueOf(pairs, k)]
    IN  ValueOf(pairs, tSignature) = SprintfHex(Sha1Sum(ConcatAscending(names, m) \o secret))

\* C4: the URL a UClient method fetches is on the client's base URL, carries
\* the Action of the method and the client's PublicKey, and its signature
\* verifies with the client's PrivateKey, whatever the caller had put in the
\* Action, PublicKey and PrivateKey fields of the record.
C4_ClientCredentials ==
    cpc = "returned" =>
        LET url == gets[Len(gets)]
            base == cloud.BaseURL
            pairs == ParseQuery(QueryOf(url, base))
        IN  /\ SubSeq(url, 1, Len(base) + 2) = base \o <<"/", "?">>
            /\ ValueOf(pairs, tAction) = Method(creq.method).action
            /\ ValueOf(pairs, tPublicKey) = cloud.PublicKey
            /\ VerifiesWith(pairs, cloud.PrivateKey)

\* UnbindEIP has returned for a caller who had set Action, PublicKey and
\* PrivateKey to values other than the client's.
C4_Witness ==
    /\ cpc = "returned"
    /\ creq.method = "UnbindEIP"
    /\ creq.p.vals[tAction] = vEvil
    /\ creq.p.vals[tPublicKey] = vPub /\ cloud.PublicKey = vOtherPub
    /\ creq.p.vals[tPrivateKey] = vSecret /\ cloud.PrivateKey = vOtherSecret

(***************************************************************************)
(* The provider adapter (ucloud.go)                                        *)
(*                                                                         *)
(* Names, addresses and identifiers are opaque strings.  An operation is   *)
(* a frame: its arguments, the remote call it is about to make (pc), its   *)
(* locals and, once it has ended, its result.  One action is one UClient   *)
(* call together with the code that runs from its return to the next call  *)
(* or to the end of the operation.  The remote API answers each call in    *)
(* any way it can.                                                         *)
(***************************************************************************)

\* var ULBNotFound, EIPNotFound (ucloud.go), cloudprovider.InstanceNotFound
ULBNotFound == [kind |-> "ULBNotFound", call |-> "", text |-> "ulb not found"]
EIPNotFound == [kind |-> "EIPNotFound", call |-> "", text |-> "eip not found"]
InstanceNotFound == [kind |-> "InstanceNotFound", call |-> "", text |-> "instance not found"]

\* errors.New(text)
ErrorsNew(text) == [kind |-> "generic", call |-> "", text |-> text]

operatorName == "Bgp"

\* How an operation ends: it returns (val, exists, err), the components its
\* signature does not have being left zero, or a run-time panic unwinds it at
\* the given line of ucloud.go.
NoResult == [kind |-> "none", val |-> "", exists |-> FALSE, err |-> NoErr, line |-> 0]
Return(val, exists, err) == [kind |-> "return", val |-> val, exists |-> exists, err |-> err, line |-> 0]
Panic(line) == [kind |-> "panic", val |-> "", exists |-> FALSE, err |-> NoErr, line |-> line]

\* ---- what the remote API can answer ----

\* type ULBIPSet, ULBBackendSet, ULBVServerSet, ULBSet: the fields the adapter reads
ULBIPSet(id, ip) == [EIPID |-> id, EIP |-> ip]
ULBBackendSet(id, res) == [BackendID |-> id, ResourceID |-> res]
ULBVServerSet(id, backends) == [VserverID |-> id, VServerSet |-> backends]

\* Load balancers a listing may hold: one named lb1 with two addresses and the
\* instances a and b bound to its virtual server; one named lb1 with no address
\* and no virtual server; one named lb1 whose first virtual server has the
\* instance a bound twice and whose second has c; one of another name.
ULBShapes ==
    {[Name |-> "lb1",
      IPSet |-> <<ULBIPSet("eip-1", "1.1.1.1"), ULBIPSet("eip-2", "1.1.1.2")>>,
      VServerSet |-> <<ULBVServerSet("vs-1", <<ULBBackendSet("be-1", "uhost-a"),
                                               ULBBackendSet("be-2", "uhost-b")>>)>>],
     [Name |-> "lb1", IPSet |-> <<>>, VServerSet |-> <<>>],
     [Name |-> "lb1",
      IPSet |-> <<ULBIPSet("eip-3", "1.1.1.3")>>,
      VServerSet |-> <<ULBVServerSet("vs-2", <<ULBBackendSet("be-3", "uhost-a"),
                                               ULBBackendSet("be-4", "uhost-a")>>),
                       ULBVServerSet("vs-3", <<ULBBackendSet("be-5", "uhost-c")>>)>>],
     [Name |-> "lb2",
      IPSet |-> <<ULBIPSet("eip-4", "1.1.1.4")>>,
      VServerSet |-> <<ULBVServerSet("vs-4", <<ULBBackendSet("be-6", "uhost-c")>>)>>]}

\* The longest DataSet and the longest UHostSet of a listing.
MaxULBs == 2
MaxUHosts == 2

RECURSIVE SeqsUpTo(_, _)
SeqsUpTo(S, n) ==
    IF n = 0 THEN {<<>>}
    ELSE LET shorter == SeqsUpTo(S, n - 1)
         IN  shorter \cup {Append(q, x) : q \in {s \in shorter : Len(s) = n - 1}, x \in S}

\* The remote gives every load balancer of a listing its own ULBId.
ULBIds == <<"ulb-1", "ulb-2", "ulb-3", "ulb-4">>
DataSets ==
    {[i \in DOMAIN q |-> [ULBID |-> ULBIds[i]] @@ q[i]] : q \in SeqsUpTo(ULBShapes, MaxULBs)}

\* type UHostIPSet, UHostInstanceSet: the fields the adapter reads
UHostIPSet(ip) == [IP |-> ip]
UHostInstanceSet(id, type, ips) == [UHostID |-> id, UHostType |-> type, IPSet |-> ips]

\* Instances a listing may hold: a, b and c with one interface each, d with
\* two interfaces whose addresses are those of a and b.
UHostShapes ==
    {UHostInstanceSet("uhost-a", "Normal", <<UHostIPSet("10.0.0.1")>>),
     UHostInstanceSet("uhost-b", "Normal", <<UHostIPSet("10.0.0.2")>>),
     UHostInstanceSet("uhost-c", "SSD", <<UHostIPSet("10.0.0.3")>>),
     UHostInstanceSet("uhost-d", "SSD", <<UHostIPSet("10.0.0.1"), UHostIPSet("10.0.0.2")>>)}

UHostSets ==
    {q \in SeqsUpTo(UHostShapes, MaxUHosts) :
        \A i, j \in DOMAIN q : i # j => q[i].UHostID # q[j].UHostID}

\* type UnetAllocateEIPSet, UnetEIPAddrSet: none allocated, one without an
\* address, one with an address.
EIPSets ==
    {<<>>,
     <<[EIPID |-> "eip-new", EIPAddr |-> <<>>]>>,
     <<[EIPID |-> "eip-new", EIPAddr |-> <<[IP |-> "2.2.2.2"]>>]>>}

\* type ReturnStatus, as the remote fills it: a non-zero RetCode comes with a
\* Message.  The GET fails, or its body fails to decode, or it decodes.
Statuses ==
    {[outcome |-> "transport", RetCode |-> 0, Message |-> ""]}
    \cup {[outcome |-> o, RetCode |-> rc, Message |-> IF rc = 0 THEN "" ELSE "denied"] :
            o \in {"decode", "ok"}, rc \in RetCodes}

\* The (response, error) pairs the method name can return to the adapter: a
\* payload from payloads when the call succeeds, the zero payload otherwise.
Replies(name, payloads, zero) ==
    UNION {{ClientReturn(name, st.outcome, [RetCode |-> st.RetCode, Message |-> st.Message] @@ d) :
                d \in IF st.outcome = "ok" /\ st.RetCode = 0 THEN payloads ELSE {zero}} :
            st \in Statuses}

StatusReplies(name) == Replies(name, {EmptyMap}, EmptyMap)
DescribeULBReplies == Replies("DescribeULB", {[DataSet |-> d] : d \in DataSets}, [DataSet |-> <<>>])
DescribeUHostInstanceReplies ==
    Replies("DescribeUHostInstance", {[UHostSet |-> u] : u \in UHostSets}, [UHostSet |-> <<>>])
CreateULBReplies == Replies("CreateULB", {[ULBID |-> "ulb-new"]}, [ULBID |-> ""])
AllocateEIPReplies == Replies("AllocateEIP", {[EIPSet |-> e] : e \in EIPSets}, [EIPSet |-> <<>>])
CreateVServerReplies == Replies("CreateVServer", {[VServerID |-> "vs-new"]}, [VServerID |-> ""])
AllocateBackendReplies == Replies("AllocateBackend", {[BackendID |-> "be-new"]}, [BackendID |-> ""])

\* ---- what the orchestrator can ask ----

\* api.ServicePort: Port, NodePort and TargetPort (an intstr.IntOrString)
ServicePort(port, nodePort, type, intVal) ==
    [Port |-> port, NodePort |-> nodePort, TargetPort |-> [Type |-> type, IntVal |-> intVal]]

PortLists ==
    {<<>>, <<ServicePort(80, 30080, "Int", 8080)>>, <<ServicePort(80, 30080, "String", 0)>>}
NodeNameLists == {<<>>, <<"10.0.0.2", "10.0.0.3">>, <<"10.0.0.1", "10.0.0.2">>}

\* name is cloudprovider.GetLoadBalancerName(service).
Request(op, ports, nodeNames, nodeName) ==
    [op |-> op, name |-> "lb1", ports |-> ports, nodeNames |-> nodeNames, nodeName |-> nodeName]

Requests ==
    {Request(op, <<>>, <<>>, "") : op \in {"GetLoadBalancer", "EnsureLoadBalancerDeleted"}}
    \cup {Request(op, ports, nn, "") :
            op \in {"EnsureLoadBalancer", "UpdateLoadBalancer"}, ports \in PortLists, nn \in NodeNameLists}
    \cup {Request(op, <<>>, <<>>, n) :
            op \in {"InstanceID", "ExternalID", "InstanceType"}, n \in {"10.0.0.1", "10.0.0.3"}}

NilULB == [nil |-> TRUE]

\* The frame of an operation at its entry.
Frame0(req) ==
    [req |-> req,
     pc |-> IF req.op \in {"InstanceID", "ExternalID", "InstanceType"}
            THEN "DescribeUHostInstance" ELSE "DescribeULB",
     described |-> [ulbSet |-> NilULB, err |-> NoErr],
     uHostIDs |-> <<>>,
     backendPort |-> 0, frontendPort |-> 0, port |-> 0,
     ULBID |-> "", EIPSet |-> <<>>, VServerID |-> "",
     m2 |-> EmptyMap, release |-> {}, allocate |-> {},
     i |-> 0,
     ret |-> NoResult]

\* func newUCloud(config io.Reader)
newUCloud(cfg) ==
    [BaseURL |-> cfg.ApiURL, PublicKey |-> cfg.PublicKey, PrivateKey |-> cfg.PrivateKey,
     Region |-> cfg.Region, Zone |-> cfg.Zone, ProjectID |-> cfg.ProjectID]

CloudConfig ==
    [ApiURL |-> vBaseURL, PublicKey |-> vOtherPub, PrivateKey |-> vOtherSecret,
     Region |-> vRegion, Zone |-> <<>>, ProjectID |-> vProject]

Init ==
    /\ param = NoStruct /\ params = EmptyMap /\ hashed = <<>> /\ qs = <<>> /\ stage = "rest"
    /\ ClientAtRest
    /\ cloud = newUCloud(CloudConfig)
    /\ frame \in [{"p1"} -> {Frame0(req) : req \in Requests}]
    /\ calls = <<>>

\* ---- the code between two remote calls ----

\* `if err != nil { return err }; if r.RetCode != 0 { return errors.New(r.Message) }`
\* Mutant of ErrOf: a non-zero RetCode is not an error.
ErrOfIgnoreRetCode(r) == r.err

ErrOf(r) ==
    IF r.err # NoErr THEN r.err
    ELSE IF r.resp.RetCode # 0 THEN ErrorsNew(r.resp.Message)
    ELSE NoErr

\* Mutant of describeLoadBalancer: the first entry is returned, whatever its name.
describeLoadBalancerFirst(name, r) ==
    IF r.err # NoErr THEN [ulbSet |-> NilULB, err |-> r.err]
    ELSE IF r.resp.RetCode # 0 \/ Len(r.resp.DataSet) = 0 THEN [ulbSet |-> NilULB, err |-> ULBNotFound]
    ELSE [ulbSet |-> [nil |-> FALSE] @@ r.resp.DataSet[1], err |-> NoErr]

\* func (c *Cloud) describeLoadBalancer(name string) (*ULBSet, error), given the
\* pair r that c.UClient.DescribeULB returned.
describeLoadBalancer(name, r) ==
    IF r.err # NoErr THEN [ulbSet |-> NilULB, err |-> r.err]
    ELSE IF r.resp.RetCode # 0 THEN [ulbSet |-> NilULB, err |-> ULBNotFound]
    ELSE LET found == {i \in DOMAIN r.resp.DataSet : r.resp.DataSet[i].Name = name}
         IN  IF found = {} THEN [ulbSet |-> NilULB, err |-> ULBNotFound]
             ELSE LET first == CHOOSE i \in found : \A j \in found : i <= j
                  IN  [ulbSet |-> [nil |-> FALSE] @@ r.resp.DataSet[first], err |-> NoErr]

\* func toLBStatus(ulbSet *ULBSet) (*api.LoadBalancerStatus, error)
toLBStatus(ulbSet) ==
    IF Len(ulbSet.IPSet) = 0 THEN [ip |-> "", err |-> EIPNotFound]
    ELSE [ip |-> ulbSet.IPSet[1].EIP, err |-> NoErr]

\* Mutant of AppendMatches: only the first interface of a host is looked at.
AppendMatchesFirstOnly(ids, host, j, nn) ==
    IF Len(host.IPSet) > 0 /\ host.IPSet[1].IP \in nn THEN Append(ids, host.UHostID) ELSE ids

\* getUHostIDs, the two nested loops: host.UHostID is appended once for every
\* interface of host whose IP is a key of nn.
RECURSIVE AppendMatches(_, _, _, _)
AppendMatches(ids, host, j, nn) ==
    IF j > Len(host.IPSet) THEN ids
    ELSE AppendMatches(IF host.IPSet[j].IP \in nn THEN Append(ids, host.UHostID) ELSE ids,
                       host, j + 1, nn)

RECURSIVE ScanHosts(_, _, _, _)
ScanHosts(ids, hosts, i, nn) ==
    IF i > Len(hosts) THEN ids
    ELSE ScanHosts(AppendMatches(ids, hosts[i], 1, nn), hosts, i + 1, nn)

\* func (c *Cloud) getUHostIDs(nodeNames []string) ([]string, error), given the
\* pair r that c.UClient.DescribeUHostInstance returned.
getUHostIDs(nodeNames, r) ==
    IF r.err # NoErr THEN [ids |-> <<>>, err |-> r.err]
    ELSE IF r.resp.RetCode # 0 THEN [ids |-> <<>>, err |-> ErrorsNew(r.resp.Message)]
    ELSE [ids |-> ScanHosts(<<>>, r.resp.UHostSet, 1, {nodeNames[i] : i \in DOMAIN nodeNames}),
          err |-> NoErr]

\* The DescribeULBParam of describeLoadBalancer and the
\* DescribeUHostInstanceParam of getUHostIDs and InstanceType.
ListingParam(c) == [Region |-> c.Region, ProjectID |-> c.ProjectID, Limit |-> 100]

\* One UClient call of operation p returns r, and the operation goes on to next.
Step(p, name, par, r, next) ==
    /\ frame' = [frame EXCEPT ![p] = next]
    /\ calls' = Append(calls, [proc |-> p, call |-> name, p |-> par, reply |-> r])
    /\ UNCHANGED <<signVars, cloud, clientVars>>

At(p, op, pc) == frame[p].req.op = op /\ frame[p].pc = pc
Finish(f, ret) == [f EXCEPT !.pc = "done", !.ret = ret]

\* ---- GetLoadBalancer ----

\* func (c *Cloud) GetLoadBalancer(clusterName string, service *api.Service)
GetLoadBalancer ==
    \E p \in DOMAIN frame :
        /\ At(p, "GetLoadBalancer", "DescribeULB")
        /\ \E r \in DescribeULBReplies :
              LET f == frame[p]
                  d == describeLoadBalancer(f.req.name, r)
                  g == [f EXCEPT !.described = d]
              IN  Step(p, "DescribeULB", ListingParam(cloud), r,
                       IF d.err # NoErr THEN Finish(g, Return("", FALSE, d.err))
                       ELSE LET s == toLBStatus(d.ulbSet)
                            IN  IF s.err # NoErr THEN Finish(g, Return("", FALSE, s.err))
                                ELSE Finish(g, Return(s.ip, TRUE, NoErr)))

\* ---- EnsureLoadBalancer and createLoadBalancer ----

\* Mutant of EnsureLoadBalancer: a load balancer that is found is returned,
\* and nothing is created.
EnsureLoadBalancerIfAbsent ==
    \E p \in DOMAIN frame :
        /\ At(p, "EnsureLoadBalancer", "DescribeULB")
        /\ \E r \in DescribeULBReplies :
              LET f == frame[p]
                  d == describeLoadBalancer(f.req.name, r)
                  g == [f EXCEPT !.described = d]
                  ports == f.req.ports
              IN  Step(p, "DescribeULB", ListingParam(cloud), r,
                       IF d.err # NoErr /\ d.err # ULBNotFound THEN Finish(g, Return("", FALSE, d.err))
                       ELSE IF d.err = NoErr
                            THEN Finish(g, Return(toLBStatus(d.ulbSet).ip, FALSE, toLBStatus(d.ulbSet).err))
                       ELSE IF Len(ports) = 0
                            THEN Finish(g, Return("", FALSE, ErrorsNew("no port found for service")))
                       ELSE [g EXCEPT !.pc = "DescribeUHostInstance",
                                      !.backendPort = ports[1].NodePort,
                                      !.frontendPort = IF ports[1].TargetPort.Type = "Int"
                                                       THEN ports[1].TargetPort.IntVal
                                                       ELSE ports[1].Port])

\* EnsureLoadBalancer, from its entry to the call of getUHostIDs.
EnsureLoadBalancer ==
    \E p \in DOMAIN frame :
        /\ At(p, "EnsureLoadBalancer", "DescribeULB")
        /\ \E r \in DescribeULBReplies :
              LET f == frame[p]
                  d == describeLoadBalancer(f.req.name, r)
                  g == [f EXCEPT !.described = d]
                  ports == f.req.ports
              IN  Step(p, "DescribeULB", ListingParam(cloud), r,
                       IF d.err # NoErr /\ d.err # ULBNotFound THEN Finish(g, Return("", FALSE, d.err))
                       ELSE IF Len(ports) = 0
                            THEN Finish(g, Return("", FALSE, ErrorsNew("no port found for service")))
                       ELSE [g EXCEPT !.pc = "DescribeUHostInstance",
                                      !.backendPort = ports[1].NodePort,
                                      !.frontendPort = IF ports[1].TargetPort.Type = "Int"
                                                       THEN ports[1].TargetPort.IntVal
                                                       ELSE ports[1].Port])

\* EnsureLoadBalancer: getUHostIDs, then createLoadBalancer up to its first call.
EnsureGetUHostIDs ==
    \E p \in DOMAIN frame :
        /\ At(p, "EnsureLoadBalancer", "DescribeUHostInstance")
        /\ \E r \in DescribeUHostInstanceReplies :
              LET f == frame[p]
                  h == getUHostIDs(f.req.nodeNames, r)
              IN  Step(p, "DescribeUHostInstance", ListingParam(cloud), r,
                       IF h.err # NoErr THEN Finish(f, Return("", FALSE, h.err))
                       ELSE [f EXCEPT !.uHostIDs = h.ids, !.pc = "CreateULB"])

\* createLoadBalancer, its last two lines: eip = r2.EIPSet[0].EIPAddr[0].IP
createReturn(f) ==
    IF Len(f.EIPSet[1].EIPAddr) = 0 THEN Finish(f, Panic(263))
    ELSE Finish(f, Return(f.EIPSet[1].EIPAddr[1].IP, FALSE, NoErr))

\* createLoadBalancer: the loop over hostIDs, entered at index i.
createLoop(f, i) ==
    IF i > Len(f.uHostIDs) THEN createReturn(f)
    ELSE [f EXCEPT !.pc = "AllocateBackend", !.i = i]

CreateULB ==
    \E p \in DOMAIN frame :
        /\ At(p, "EnsureLoadBalancer", "CreateULB")
        /\ \E r \in CreateULBReplies :
              LET f == frame[p]
                  p1 == [Region |-> cloud.Region, ProjectID |-> cloud.ProjectID, ULBName |-> f.req.name,
                         Tag |-> "tidb-k8s-poc", OuterMode |-> "Yes"]
              IN  Step(p, "CreateULB", p1, r,
                       IF ErrOf(r) # NoErr THEN Finish(f, Return("", FALSE, ErrOf(r)))
                       ELSE [f EXCEPT !.ULBID = r.resp.ULBID, !.pc = "AllocateEIP"])

\* AllocateEIP, and the construction of p3, which reads r2.EIPSet[0].
AllocateEIP ==
    \E p \in DOMAIN frame :
        /\ At(p, "EnsureLoadBalancer", "AllocateEIP")
        /\ \E r \in AllocateEIPReplies :
              LET f == frame[p]
                  p2 == [Region |-> cloud.Region, OperatorName |-> operatorName,
                         Bandwidth |-> 2, Quantity |-> 1]
              IN  Step(p, "AllocateEIP", p2, r,
                       IF ErrOf(r) # NoErr THEN Finish(f, Return("", FALSE, ErrOf(r)))
                       ELSE IF Len(r.resp.EIPSet) = 0 THEN Finish(f, Panic(211))
                       ELSE [f EXCEPT !.EIPSet = r.resp.EIPSet, !.pc = "BindEIP"])

BindEIP ==
    \E p \in DOMAIN frame :
        /\ At(p, "EnsureLoadBalancer", "BindEIP")
        /\ \E r \in StatusReplies("BindEIP") :
              LET f == frame[p]
                  p3 == [Region |-> cloud.Region, EIPID |-> f.EIPSet[1].EIPID,
                         ResourceType |-> "ulb", ResourceID |-> f.ULBID]
              IN  Step(p, "BindEIP", p3, r,
                       IF ErrOf(r) # NoErr THEN Finish(f, Return("", FALSE, ErrOf(r)))
                       ELSE [f EXCEPT !.pc = "CreateVServer"])

CreateVServer ==
    \E p \in DOMAIN frame :
        /\ At(p, "EnsureLoadBalancer", "CreateVServer")
        /\ \E r \in CreateVServerReplies :
              LET f == frame[p]
                  p4 == [Region |-> cloud.Region, ProjectID |-> cloud.ProjectID, ULBID |-> f.ULBID,
                         VServerName |-> "tidb-server", Protocol |-> "TCP",
                         FrontendPort |-> f.frontendPort, ListenType |-> "RequestProxy",
                         ClientTimeout |-> 60]
              IN  Step(p, "CreateVServer", p4, r,
                       IF ErrOf(r) # NoErr THEN Finish(f, Return("", FALSE, ErrOf(r)))
                       ELSE createLoop([f EXCEPT !.VServerID = r.resp.VServerID], 1))

\* createLoadBalancer: one iteration of the loop over hostIDs.
AllocateBackend ==
    \E p \in DOMAIN frame :
        /\ At(p, "EnsureLoadBalancer", "AllocateBackend")
        /\ \E r \in AllocateBackendReplies :
              LET f == frame[p]
                  p5 == [Region |-> cloud.Region, ProjectID |-> cloud.ProjectID, ULBID |-> f.ULBID,
                         VServerID |-> f.VServerID, ResourceType |-> "UHost",
                         ResourceID |-> f.uHostIDs[f.i], Port |-> f.backendPort, Enabled |-> 1]
              IN  Step(p, "AllocateBackend", p5, r,
                       IF ErrOf(r) # NoErr THEN Finish(f, Return("", FALSE, ErrOf(r)))
                       ELSE createLoop(f, f.i + 1))

\* ---- UpdateLoadBalancer ----

\* m2, built by the loop over ulbSet.VServerSet[0].VServerSet: a later backend
\* of the same ResourceID replaces an earlier one.
RECURSIVE BackendMap(_, _)
BackendMap(backends, n) ==
    IF n = 0 THEN EmptyMap
    ELSE MapSet(BackendMap(backends, n - 1), backends[n].ResourceID, backends[n].BackendID)

\* Mutant of ToAllocate: nothing is allocated.
ToAllocateNothing(m1, m2) == {}

\* Mutant of ToRelease: every bound instance is released.
ToReleaseAll(m1, m2) == DOMAIN m2

\* The keys of m2 for which the first loop calls ReleaseBackend, and the keys
\* of m1 for which the second loop calls AllocateBackend.
ToRelease(m1, m2) == {host \in DOMAIN m2 : host \notin m1}
ToAllocate(m1, m2) == {host \in m1 : host \notin DOMAIN m2}

\* The two range loops, between two calls: range visits the keys left in any
\* order, and a key that needs no call is passed without effect.
updateLoops(f) ==
    IF f.release # {} THEN [f EXCEPT !.pc = "ReleaseBackend"]
    ELSE IF f.allocate # {} THEN [f EXCEPT !.pc = "AllocateBackend"]
    ELSE Finish(f, Return("", FALSE, NoErr))

\* UpdateLoadBalancer, from its entry to the call of getUHostIDs.
UpdateLoadBalancer ==
    \E p \in DOMAIN frame :
        /\ At(p, "UpdateLoadBalancer", "DescribeULB")
        /\ \E r \in DescribeULBReplies :
              LET f == frame[p]
                  d == describeLoadBalancer(f.req.name, r)
                  g == [f EXCEPT !.described = d]
              IN  Step(p, "DescribeULB", ListingParam(cloud), r,
                       IF d.err # NoErr THEN Finish(g, Return("", FALSE, d.err))
                       ELSE IF Len(f.req.ports) = 0
                            THEN Finish(g, Return("", FALSE, ErrorsNew("no port found for serivce")))
                       ELSE [g EXCEPT !.pc = "DescribeUHostInstance", !.port = f.req.ports[1].Port])

\* UpdateLoadBalancer: getUHostIDs, then the construction of m1 and m2.
UpdateGetUHostIDs ==
    \E p \in DOMAIN frame :
        /\ At(p, "UpdateLoadBalancer", "DescribeUHostInstance")
        /\ \E r \in DescribeUHostInstanceReplies :
              LET f == frame[p]
                  h == getUHostIDs(f.req.nodeNames, r)
                  ulbSet == f.described.ulbSet
              IN  Step(p, "DescribeUHostInstance", ListingParam(cloud), r,
                       IF h.err # NoErr THEN Finish(f, Return("", FALSE, h.err))
                       ELSE IF Len(ulbSet.VServerSet) = 0
                            THEN Finish([f EXCEPT !.uHostIDs = h.ids, !.ULBID = ulbSet.ULBID], Panic(399))
                       ELSE LET m1 == {h.ids[i] : i \in DOMAIN h.ids}
                                backends == ulbSet.VServerSet[1].VServerSet
                                m2 == BackendMap(backends, Len(backends))
                            IN  updateLoops([f EXCEPT !.uHostIDs = h.ids,
                                                      !.ULBID = ulbSet.ULBID,
                                                      !.VServerID = ulbSet.VServerSet[1].VserverID,
                                                      !.m2 = m2,
                                                      !.release = ToRelease(m1, m2),
                                                      !.allocate = ToAllocate(m1, m2)]))

\* UpdateLoadBalancer: one ReleaseBackend call of the loop over m2.
ReleaseBackend ==
    \E p \in DOMAIN frame :
        /\ At(p, "UpdateLoadBalancer", "ReleaseBackend")
        /\ \E host \in frame[p].release, r \in StatusReplies("ReleaseBackend") :
              LET f == frame[p]
                  par == [Region |-> cloud.Region, ProjectID |-> cloud.ProjectID, ULBID |-> f.ULBID,
                          BackendID |-> f.m2[host]]
              IN  Step(p, "ReleaseBackend", par, r,
                       IF ErrOf(r) # NoErr THEN Finish(f, Return("", FALSE, ErrOf(r)))
                       ELSE updateLoops([f EXCEPT !.release = @ \ {host}]))

\* UpdateLoadBalancer: one AllocateBackend call of the loop over m1.
UpdateAllocateBackend ==
    \E p \in DOMAIN frame :
        /\ At(p, "UpdateLoadBalancer", "AllocateBackend")
        /\ \E host \in frame[p].allocate, r \in AllocateBackendReplies :
              LET f == frame[p]
                  par == [Region |-> cloud.Region, ProjectID |-> cloud.ProjectID, ULBID |-> f.ULBID,
                          VServerID |-> f.VServerID, ResourceType |-> "UHost", ResourceID |-> host,
                          Port |-> f.port, Enabled |-> 1]
              IN  Step(p, "AllocateBackend", par, r,
                       IF ErrOf(r) # NoErr THEN Finish(f, Return("", FALSE, ErrOf(r)))
                       ELSE updateLoops([f EXCEPT !.allocate = @ \ {host}]))

\* ---- EnsureLoadBalancerDeleted and deleteLoadBalancer ----

\* Mutant of NotFound: the lookup error is never taken for "already deleted".
NotFoundNever(err) == FALSE

\* deleteLoadBalancer: `err != nil && err == ULBNotFound`
NotFound(err) == err # NoErr /\ err = ULBNotFound

\* deleteLoadBalancer: the loop over ulbSet.IPSet, entered at index i.
releaseLoop(f, i) ==
    IF i > Len(f.described.ulbSet.IPSet) THEN Finish(f, Return("", FALSE, NoErr))
    ELSE [f EXCEPT !.pc = "ReleaseEIP", !.i = i]

\* EnsureLoadBalancerDeleted: deleteLoadBalancer from its entry to the call of
\* DeleteULB, whose parameter reads ulbSet.ULBID.
EnsureLoadBalancerDeleted ==
    \E p \in DOMAIN frame :
        /\ At(p, "EnsureLoadBalancerDeleted", "DescribeULB")
        /\ \E r \in DescribeULBReplies :
              LET f == frame[p]
                  d == describeLoadBalancer(f.req.name, r)
                  g == [f EXCEPT !.described = d]
              IN  Step(p, "DescribeULB", ListingParam(cloud), r,
                       IF NotFound(d.err) THEN Finish(g, Return("", FALSE, NoErr))
                       ELSE IF d.ulbSet.nil THEN Finish(g, Panic(275))
                       ELSE [g EXCEPT !.pc = "DeleteULB"])

\* deleteLoadBalancer: DeleteULB; err is logged, then r.RetCode is read.
DeleteULB ==
    \E p \in DOMAIN frame :
        /\ At(p, "EnsureLoadBalancerDeleted", "DeleteULB")
        /\ \E r \in StatusReplies("DeleteULB") :
              LET f == frame[p]
                  par == [Region |-> cloud.Region, ProjectID |-> cloud.ProjectID,
                          ULBID |-> f.described.ulbSet.ULBID]
              IN  Step(p, "DeleteULB", par, r,
                       IF r.resp.nil THEN Finish(f, Panic(281))
                       ELSE releaseLoop(f, 1))

\* deleteLoadBalancer: one iteration of the loop over ulbSet.IPSet; a failure
\* is logged and the loop goes on.
ReleaseEIP ==
    \E p \in DOMAIN frame :
        /\ At(p, "EnsureLoadBalancerDeleted", "ReleaseEIP")
        /\ \E r \in StatusReplies("ReleaseEIP") :
              LET f == frame[p]
                  p2 == [Region |-> cloud.Region, EIPID |-> f.described.ulbSet.IPSet[f.i].EIPID]
              IN  Step(p, "ReleaseEIP", p2, r, releaseLoop(f, f.i + 1))

\* ---- Instances ----

\* ExternalID and InstanceID have the same body.
instanceID(f, r) ==
    LET h == getUHostIDs(<<f.req.nodeName>>, r)
    IN  IF h.err # NoErr THEN Finish(f, Return("", FALSE, h.err))
        ELSE IF Len(h.ids) = 0 THEN Finish(f, Return("", FALSE, InstanceNotFound))
        ELSE Finish([f EXCEPT !.uHostIDs = h.ids], Return(h.ids[1], FALSE, NoErr))

\* func (c *Cloud) ExternalID(nodeName types.NodeName) (string, error)
ExternalID ==
    \E p \in DOMAIN frame :
        /\ At(p, "ExternalID", "DescribeUHostInstance")
        /\ \E r \in DescribeUHostInstanceReplies :
              Step(p, "DescribeUHostInstance", ListingParam(cloud), r, instanceID(frame[p], r))

\* func (c *Cloud) InstanceID(nodeName types.NodeName) (string, error)
InstanceID ==
    \E p \in DOMAIN frame :
        /\ At(p, "InstanceID", "DescribeUHostInstance")
        /\ \E r \in DescribeUHostInstanceReplies :
              Step(p, "DescribeUHostInstance", ListingParam(cloud), r, instanceID(frame[p], r))

\* InstanceType, the two nested loops: the type of the first listed host one
\* of whose interfaces has the IP nodeName.
hostTypeOf(hosts, nodeName) ==
    LET found == {i \in DOMAIN hosts :
                    \E j \in DOMAIN hosts[i].IPSet : hosts[i].IPSet[j].IP = nodeName}
    IN  IF found = {} THEN Return("", FALSE, InstanceNotFound)
        ELSE Return(hosts[CHOOSE i \in found : \A j \in found : i <= j].UHostType, FALSE, NoErr)

\* func (c *Cloud) InstanceType(nodeName types.NodeName) (string, error)
InstanceType ==
    \E p \in DOMAIN frame :
        /\ At(p, "InstanceType", "DescribeUHostInstance")
        /\ \E r \in DescribeUHostInstanceReplies :
              LET f == frame[p]
              IN  Step(p, "DescribeUHostInstance", ListingParam(cloud), r,
                       IF ErrOf(r) # NoErr THEN Finish(f, Return("", FALSE, ErrOf(r)))
                       ELSE Finish(f, hostTypeOf(r.resp.UHostSet, f.req.nodeName)))

Next ==
    \/ GetLoadBalancer
    \/ EnsureLoadBalancer
    \/ EnsureGetUHostIDs
    \/ CreateULB
    \/ AllocateEIP
    \/ BindEIP
    \/ CreateVServer
    \/ AllocateBackend
    \/ UpdateLoadBalancer
    \/ UpdateGetUHostIDs
    \/ ReleaseBackend
    \/ UpdateAllocateBackend
    \/ EnsureLoadBalancerDeleted
    \/ DeleteULB
    \/ ReleaseEIP
    \/ ExternalID
    \/ InstanceID
    \/ InstanceType

Spec == Init /\ [][Next]_vars


(***************************************************************************)
(* Properties of the adapter (Spec)                                        *)
(***************************************************************************)

\* The calls operation p has made, and those of them to the method name.
CallsOf(p) == {i \in DOMAIN calls : calls[i].proc = p}
CallsNamed(p, name) == {i \in CallsOf(p) : calls[i].call = name}

\* A call succeeded: it returned no error and RetCode 0.
Succeeded(i) == calls[i].reply.err = NoErr /\ calls[i].reply.resp.RetCode = 0

\* The entries of a listing that carry the name.
Matches(DataSet, name) == {j \in DOMAIN DataSet : DataSet[j].Name = name}
First(I) == CHOOSE i \in I : \A j \in I : i <= j

\* The instances of a listing that have an interface with one of the addresses.
InstancesAt(UHostSet, nodeNames) ==
    {UHostSet[i].UHostID : i \in {i \in DOMAIN UHostSet :
        \E j \in DOMAIN UHostSet[i].IPSet, n \in DOMAIN nodeNames :
            UHostSet[i].IPSet[j].IP = nodeNames[n]}}

\* C5: when UpdateLoadBalancer has ended and its two lookups (the load
\* balancer, which has a first virtual server, and the instances) and every
\* other remote call it made succeeded, it has returned nil and has made
\* exactly one ReleaseBackend call for each instance bound to the first
\* virtual server and not desired, exactly one AllocateBackend call for each
\* desired instance not bound, no call for an instance both bound and desired,
\* and no other release or allocate call.
C5_UpdateSymmetricDifference ==
    \A p \in DOMAIN frame :
        LET f == frame[p]
            lookups == CallsNamed(p, "DescribeULB")
            listings == CallsNamed(p, "DescribeUHostInstance")
            DataSet == calls[First(lookups)].reply.resp.DataSet
            found == Matches(DataSet, f.req.name)
            vservers == DataSet[First(found)].VServerSet
        IN  (/\ f.req.op = "UpdateLoadBalancer" /\ f.pc = "done"
             /\ lookups # {} /\ listings # {}
             /\ \A i \in CallsOf(p) : Succeeded(i)
             /\ found # {}
             /\ Len(vservers) > 0)
            => LET backends == vservers[1].VServerSet
                   bound == {backends[j].ResourceID : j \in DOMAIN backends}
                   desired == InstancesAt(calls[First(listings)].reply.resp.UHostSet, f.req.nodeNames)
                   bindings(X) == {backends[j].BackendID : j \in {j \in DOMAIN backends : backends[j].ResourceID = X}}
                   releases(X) == {i \in CallsNamed(p, "ReleaseBackend") : calls[i].p.BackendID \in bindings(X)}
                   allocates(X) == {i \in CallsNamed(p, "AllocateBackend") : calls[i].p.ResourceID = X}
               IN  /\ f.ret = Return("", FALSE, NoErr)
                   /\ \A X \in bound \ desired : Cardinality(releases(X)) = 1 /\ allocates(X) = {}
                   /\ \A X \in desired \ bound : Cardinality(allocates(X)) = 1
                   /\ \A X \in bound \cap desired : releases(X) = {} /\ allocates(X) = {}
                   /\ Cardinality(CallsNamed(p, "ReleaseBackend")) = Cardinality(bound \ desired)
                   /\ Cardinality(CallsNamed(p, "AllocateBackend")) = Cardinality(desired \ bound)

\* UpdateLoadBalancer has returned nil for a load balancer with a and b bound
\* and the instances b and c desired: four calls, of which one ReleaseBackend
\* of the binding of a and one AllocateBackend of c.
C5_Witness ==
    \E p \in DOMAIN frame :
        /\ frame[p].req.op = "UpdateLoadBalancer"
        /\ frame[p].pc = "done"
        /\ frame[p].ret = Return("", FALSE, NoErr)
        /\ DOMAIN frame[p].m2 = {"uhost-a", "uhost-b"}
        /\ {frame[p].uHostIDs[i] : i \in DOMAIN frame[p].uHostIDs} = {"uhost-b", "uhost-c"}
        /\ Cardinality(CallsOf(p)) = 4
        /\ \E i \in CallsNamed(p, "ReleaseBackend") : calls[i].p.BackendID = "be-1"
        /\ \E i \in CallsNamed(p, "AllocateBackend") : calls[i].p.ResourceID = "uhost-c"

\* C6: when the DescribeULB listing of EnsureLoadBalancerDeleted succeeds and
\* none of its entries has the name of the load balancer, the operation has
\* returned nil and has made no DeleteULB and no ReleaseEIP call.
C6_DeleteOfUnlisted ==
    \A p \in DOMAIN frame :
        (/\ frame[p].req.op = "EnsureLoadBalancerDeleted"
         /\ \E i \in CallsNamed(p, "DescribeULB") :
               Succeeded(i) /\ Matches(calls[i].reply.resp.DataSet, frame[p].req.name) = {})
        => /\ frame[p].pc = "done"
           /\ frame[p].ret = Return("", FALSE, NoErr)
           /\ CallsNamed(p, "DeleteULB") = {}
           /\ CallsNamed(p, "ReleaseEIP") = {}
           /\ Cardinality(CallsOf(p)) = 1

\* EnsureLoadBalancerDeleted has returned after a listing that holds a load
\* balancer, of another name.
C6_Witness ==
    \E p \in DOMAIN frame :
        /\ frame[p].req.op = "EnsureLoadBalancerDeleted"
        /\ frame[p].pc = "done"
        /\ \E i \in CallsNamed(p, "DescribeULB") :
              /\ Succeeded(i)
              /\ Len(calls[i].reply.resp.DataSet) > 0
              /\ Matches(calls[i].reply.resp.DataSet, frame[p].req.name) = {}

\* C7: when DescribeULB succeeds with RetCode 0, describeLoadBalancer returns
\* (nil, ULBNotFound) if no entry of DataSet has the requested name, and an
\* entry of DataSet that has the requested name, with a nil error, if there
\* is one.
C7_DescribeNotFound ==
    \A p \in DOMAIN frame :
        \A i \in CallsNamed(p, "DescribeULB") :
            Succeeded(i) =>
                LET DataSet == calls[i].reply.resp.DataSet
                    found == Matches(DataSet, frame[p].req.name)
                    d == frame[p].described
                IN  IF found = {} THEN d.ulbSet.nil /\ d.err = ULBNotFound
                    ELSE /\ d.err = NoErr
                         /\ \E j \in found : d.ulbSet = [nil |-> FALSE] @@ DataSet[j]

\* GetLoadBalancer has returned the sentinel after a listing with RetCode 0
\* that holds two load balancers, both of another name.
C7_Witness ==
    \E p \in DOMAIN frame :
        /\ frame[p].req.op = "GetLoadBalancer"
        /\ frame[p].pc = "done"
        /\ frame[p].described.err = ULBNotFound
        /\ \E i \in CallsNamed(p, "DescribeULB") :
              /\ Succeeded(i)
              /\ Len(calls[i].reply.resp.DataSet) = 2
              /\ Matches(calls[i].reply.resp.DataSet, frame[p].req.name) = {}

\* The calls createLoadBalancer makes for the host IDs, when none fails.
CreateSequence(hostIDs) ==
    <<"CreateULB", "AllocateEIP", "BindEIP", "CreateVServer">>
    \o [i \in 1..Len(hostIDs) |-> "AllocateBackend"]

\* A call failed: it returned an error or a non-zero RetCode.
FailedReply(r) == r.err # NoErr \/ r.resp.RetCode # 0

\* C8: the calls EnsureLoadBalancer makes after its two lookups, which are
\* those of createLoadBalancer, are at any time a prefix of CreateULB,
\* AllocateEIP, BindEIP, CreateVServer and one AllocateBackend per host ID, in
\* the order of the host IDs; a call that failed is the last one and the
\* operation has returned an error; no other call (a delete, a release, an
\* unbind) is among them; and a nil return has made them all.
C8_CreateOrder ==
    \A p \in DOMAIN frame :
        LET f == frame[p]
            cs == SelectSeq(calls, LAMBDA c : c.proc = p /\ c.call \notin {"DescribeULB", "DescribeUHostInstance"})
            expected == CreateSequence(f.uHostIDs)
        IN  f.req.op = "EnsureLoadBalancer" =>
                /\ Len(cs) <= Len(expected)
                /\ \A k \in DOMAIN cs :
                      /\ cs[k].call = expected[k]
                      /\ k > 4 => cs[k].p.ResourceID = f.uHostIDs[k - 4]
                      /\ FailedReply(cs[k].reply) =>
                            /\ k = Len(cs)
                            /\ f.pc = "done" /\ f.ret.kind = "return"
                            /\ f.ret.err # NoErr
                /\ (f.pc = "done" /\ f.ret.kind = "return" /\ f.ret.err = NoErr)
                      => Len(cs) = Len(expected)

\* EnsureLoadBalancer for two hosts has returned the error of BindEIP, which
\* answered a non-zero RetCode after CreateULB and AllocateEIP had succeeded.
C8_Witness ==
    \E p \in DOMAIN frame :
        /\ frame[p].req.op = "EnsureLoadBalancer"
        /\ Len(frame[p].uHostIDs) = 2
        /\ frame[p].pc = "done"
        /\ frame[p].ret = Return("", FALSE, ErrorsNew("denied"))
        /\ Cardinality(CallsOf(p)) = 5
        /\ calls[Len(calls)].call = "BindEIP"

\* C9: in every operation, a remote call other than the ReleaseEIP of a
\* deletion that failed at transport or decode level is the last call of the
\* operation, and the operation has returned that error.
C9_FailureReturned ==
    \A p \in DOMAIN frame :
        \A i \in CallsOf(p) :
            (calls[i].reply.err.kind \in {"transport", "decode"} /\ calls[i].call # "ReleaseEIP")
            => /\ frame[p].pc = "done"
               /\ frame[p].ret.kind = "return"
               /\ frame[p].ret.err = calls[i].reply.err
               /\ \A j \in CallsOf(p) : j <= i

\* C10: in every operation, a remote call other than the ReleaseEIP of a
\* deletion that decoded with a non-zero RetCode makes the operation return
\* errors.New of the Message of that response.
C10_RetCodeSurfaced ==
    \A p \in DOMAIN frame :
        \A i \in CallsOf(p) :
            (/\ calls[i].reply.err = NoErr
             /\ calls[i].reply.resp.RetCode # 0
             /\ calls[i].call # "ReleaseEIP")
            => /\ frame[p].pc = "done"
               /\ frame[p].ret.kind = "return"
               /\ frame[p].ret.err = ErrorsNew(calls[i].reply.resp.Message)

\* The ReleaseEIP calls of operation p, in the order they were made.
ReleasesOf(p) == SelectSeq(calls, LAMBDA c : c.proc = p /\ c.call = "ReleaseEIP")

\* C11: when EnsureLoadBalancerDeleted has found the load balancer and has
\* ended, it has returned nil and has made one ReleaseEIP call for every
\* entry of the IPSet of the load balancer, in the order of IPSet, whatever
\* each of these calls answered.
C11_ReleaseEveryEIP ==
    \A p \in DOMAIN frame :
        LET f == frame[p]
        IN  (f.req.op = "EnsureLoadBalancerDeleted" /\ f.pc = "done" /\ ~f.described.ulbSet.nil)
            => /\ f.ret = Return("", FALSE, NoErr)
               /\ Len(ReleasesOf(p)) = Len(f.described.ulbSet.IPSet)
               /\ \A k \in DOMAIN ReleasesOf(p) :
                     ReleasesOf(p)[k].p.EIPID = f.described.ulbSet.IPSet[k].EIPID

(***************************************************************************)
(* Properties of the client, continued (SpecClient)                        *)
(***************************************************************************)

\* C12: a UClient method that has returned has made exactly one http.Get;
\* when that GET failed at transport level, the method has returned a nil
\* response and the error of the GET.
C12_OneGetNoRetry ==
    cpc = "returned" =>
        /\ Len(gets) = 1
        /\ Len(got) = 1
        /\ got[1].outcome = "transport" => cret.resp = NilResp /\ cret.err = got[1].err

\* DeleteULB has returned after a GET that failed at transport level.
C12_Witness ==
    /\ cpc = "returned"
    /\ creq.method = "DeleteULB"
    /\ Len(got) = 1
    /\ got[1].outcome = "transport"
    /\ cret.err.kind = "transport"

\* C13: a UClient method whose response body decoded returns the decoded
\* record, RetCode and Message included, with a nil error, whatever the
\* RetCode; its error is non-nil exactly when the GET or the decoding failed.
C13_RetCodeIsNotAnError ==
    cpc = "returned" =>
        /\ got[1].outcome = "ok" =>
              /\ cret.err = NoErr
              /\ ~cret.resp.nil
              /\ cret.resp.RetCode = got[1].body.RetCode
              /\ cret.resp.Message = got[1].body.Message
        /\ cret.err # NoErr <=> got[1].outcome \in {"transport", "decode"}

\* CreateULB has returned a record with a non-zero RetCode and a nil error.
C13_Witness ==
    /\ cpc = "returned"
    /\ creq.method = "CreateULB"
    /\ got[1].outcome = "ok"
    /\ cret.resp.RetCode # 0
    /\ cret.err = NoErr

(***************************************************************************)
(* Properties of the adapter, continued (Spec)                             *)
(***************************************************************************)

\* C14: an operation lists the instances at most once, with Limit 100 and no
\* Offset.  InstanceID and ExternalID make that one call and no other; when
\* it succeeds they return the ID of a listed instance that has an interface
\* with the IP nodeName, and InstanceNotFound when the listing has no such
\* instance.  The IDs getUHostIDs returns to EnsureLoadBalancer and
\* UpdateLoadBalancer are those of the listed instances that have an
\* interface with an IP among nodeNames, and no other.
C14_InstanceLookup ==
    \A p \in DOMAIN frame :
        LET f == frame[p]
            listings == CallsNamed(p, "DescribeUHostInstance")
        IN  /\ Cardinality(listings) <= 1
            /\ \A i \in listings :
                  /\ calls[i].p = [Region |-> cloud.Region, ProjectID |-> cloud.ProjectID, Limit |-> 100]
                  /\ f.req.op \in {"InstanceID", "ExternalID"} =>
                        /\ f.pc = "done"
                        /\ CallsOf(p) = {i}
                        /\ Succeeded(i) =>
                              LET at == InstancesAt(calls[i].reply.resp.UHostSet, <<f.req.nodeName>>)
                              IN  IF at = {} THEN f.ret = Return("", FALSE, InstanceNotFound)
                                  ELSE f.ret.kind = "return" /\ f.ret.err = NoErr /\ f.ret.val \in at
                  /\ (f.req.op \in {"EnsureLoadBalancer", "UpdateLoadBalancer"} /\ Succeeded(i)) =>
                        {f.uHostIDs[k] : k \in DOMAIN f.uHostIDs}
                            = InstancesAt(calls[i].reply.resp.UHostSet, f.req.nodeNames)

\* InstanceID has returned uhost-d, found by its interface 10.0.0.1 in a
\* listing of two instances whose first has no such interface.
C14_Witness ==
    \E p \in DOMAIN frame :
        /\ frame[p].req.op = "InstanceID"
        /\ frame[p].req.nodeName = "10.0.0.1"
        /\ frame[p].pc = "done"
        /\ frame[p].ret = Return("uhost-d", FALSE, NoErr)
        /\ \E i \in CallsNamed(p, "DescribeUHostInstance") :
              /\ Len(calls[i].reply.resp.UHostSet) = 2
              /\ calls[i].reply.resp.UHostSet[1].UHostID = "uhost-c"

(***************************************************************************)
(* Properties of the signer, continued (SpecSign)                          *)
(***************************************************************************)

\* C15: the string hashed and the query string returned by toQueryString for
\* a map are those it produces for that map in every order in which range can
\* visit the fields: a second call on the same map returns the same signature
\* and the same query string.
C15_SigningDeterministic ==
    stage = "signed" =>
        \A visit \in VisitOrders(DOMAIN params) :
            /\ SigningInput(params, visit) = hashed
            /\ toQueryString(params, visit) = qs

\* A map with three fields or more to sign, which range can visit in several
\* orders, has been signed.
C15_Witness ==
    /\ stage = "signed"
    /\ Cardinality(NonEmptyKeys(params) \ SecretKeys) >= 3
    /\ Cardinality(VisitOrders(DOMAIN params)) >= 6

(***************************************************************************)
(* Two operations in flight (SpecRace)                                     *)
(*                                                                         *)
(* The controller calls EnsureLoadBalancer and UpdateLoadBalancer from     *)
(* several goroutines; Cloud holds no lock.  Two operations on the same    *)
(* service run here, their remote calls interleaved in any order.  To keep *)
(* the interleavings countable the remote answers less freely than in      *)
(* Spec: a GET fails at transport level or its body decodes, a decoded     *)
(* body carries RetCode 0, a listing of load balancers is empty or holds   *)
(* the one load balancer of the service, the listing of instances holds b  *)
(* and c, and an allocated EIP has an address.                             *)
(***************************************************************************)

RaceRequests ==
    {Request(op, <<ServicePort(80, 30080, "Int", 8080)>>, <<"10.0.0.2", "10.0.0.3">>, "") :
        op \in {"EnsureLoadBalancer", "UpdateLoadBalancer"}}

RaceDataSets ==
    {d \in DataSets : Len(d) = 0 \/ (Len(d) = 1 /\ d[1].Name = "lb1" /\ Len(d[1].IPSet) = 2)}

RaceUHostSet ==
    <<UHostInstanceSet("uhost-b", "Normal", <<UHostIPSet("10.0.0.2")>>),
      UHostInstanceSet("uhost-c", "SSD", <<UHostIPSet("10.0.0.3")>>)>>

\* The answers of the remote to the call c that are kept.
RaceReply(c) ==
    /\ c.reply.err.kind \in {"nil", "transport"}
    /\ c.reply.err = NoErr =>
          /\ c.reply.resp.RetCode = 0
          /\ c.call = "DescribeULB" => c.reply.resp.DataSet \in RaceDataSets
          /\ c.call = "DescribeUHostInstance" => c.reply.resp.UHostSet = RaceUHostSet
          /\ c.call = "AllocateEIP" =>
                Len(c.reply.resp.EIPSet) > 0 /\ Len(c.reply.resp.EIPSet[1].EIPAddr) > 0

InitRace ==
    /\ param = NoStruct /\ params = EmptyMap /\ hashed = <<>> /\ qs = <<>> /\ stage = "rest"
    /\ ClientAtRest
    /\ cloud = newUCloud(CloudConfig)
    /\ frame \in [{"p1", "p2"} -> {Frame0(req) : req \in RaceRequests}]
    /\ calls = <<>>

NextRace ==
    \/ EnsureLoadBalancer /\ RaceReply(calls'[Len(calls')])
    \/ EnsureGetUHostIDs /\ RaceReply(calls'[Len(calls')])
    \/ CreateULB /\ RaceReply(calls'[Len(calls')])
    \/ AllocateEIP /\ RaceReply(calls'[Len(calls')])
    \/ BindEIP /\ RaceReply(calls'[Len(calls')])
    \/ CreateVServer /\ RaceReply(calls'[Len(calls')])
    \/ AllocateBackend /\ RaceReply(calls'[Len(calls')])
    \/ UpdateLoadBalancer /\ RaceReply(calls'[Len(calls')])
    \/ UpdateGetUHostIDs /\ RaceReply(calls'[Len(calls')])
    \/ ReleaseBackend /\ RaceReply(calls'[Len(calls')])
    \/ UpdateAllocateBackend /\ RaceReply(calls'[Len(calls')])

SpecRace == InitRace /\ [][NextRace]_vars

(***************************************************************************)
(* Concurrent callers (SpecShared)                                         *)
(*                                                                         *)
(* Goroutines g1 and g2 are inside a UClient method each, and the adapter  *)
(* operations p1 and p2 run beside them, all on one Cloud object.  A       *)
(* UClient method has a value receiver and takes its parameter record by   *)
(* value: at entry Go copies both, and setKey, which has a pointer         *)
(* receiver, writes to the method's copy.  The steps of the goroutines     *)
(* interleave in any order.                                                *)
(***************************************************************************)

NoGot == [outcome |-> "", RetCode |-> 0, Message |-> ""]

\* The records the callers hold: a listing request with the credential fields
\* unset, and one with them set by the caller.
SharedCalls ==
    {[method |-> "DescribeULB", p |-> p] :
        p \in {q \in CallerStructs(DescribeULBParam) :
                 /\ q.vals[tRegion] # <<>>
                 /\ \/ \A k \in CredTags : q.vals[k] = <<>>
                    \/ \A k \in CredTags : q.vals[k] # <<>>}}

\* A goroutine about to call c.method(arg).
Caller0(call) ==
    [method |-> call.method, arg |-> call.p, pc |-> "call",
     c |-> [BaseURL |-> <<>>, PublicKey |-> <<>>, PrivateKey |-> <<>>],
     p |-> NoStruct, url |-> <<>>, got |-> NoGot, ret |-> NoReturn]

SharedRequests == {Request("GetLoadBalancer", <<>>, <<>>, "")}

InitShared ==
    /\ param = NoStruct /\ params = EmptyMap /\ hashed = <<>> /\ qs = <<>> /\ stage = "rest"
    /\ creq = NoCall /\ gets = <<>> /\ cret = NoReturn /\ cpc = "rest" /\ got = <<>>
    /\ cloud = newUCloud(CloudConfig)
    /\ caller \in [{"g1", "g2"} -> {Caller0(call) : call \in SharedCalls}]
    /\ frame \in [{"p1", "p2"} -> {Frame0(req) : req \in SharedRequests}]
    /\ calls = <<>>

\* Mutant of SetKey: the method has the caller's record itself, not a copy.
SetKeyOfCallersRecord ==
    \E g \in DOMAIN caller :
        /\ caller[g].pc = "call"
        /\ LET m == Method(caller[g].method)
               c == [BaseURL |-> cloud.BaseURL, PublicKey |-> cloud.PublicKey,
                     PrivateKey |-> cloud.PrivateKey]
               p == setKey(m, caller[g].arg, c.PublicKey, c.PrivateKey)
           IN  caller' = [caller EXCEPT ![g].c = c, ![g].p = p, ![g].arg = p, ![g].pc = "Get"]
        /\ UNCHANGED <<signVars, cloud, creq, gets, cret, cpc, got, adapterVars>>

\* func (c UClient) X(p XParam): the receiver and the record are copied, then
\* p.setKey(c.PublicKey, c.PrivateKey)
SetKey ==
    \E g \in DOMAIN caller :
        /\ caller[g].pc = "call"
        /\ LET m == Method(caller[g].method)
               c == [BaseURL |-> cloud.BaseURL, PublicKey |-> cloud.PublicKey,
                     PrivateKey |-> cloud.PrivateKey]
               p == setKey(m, caller[g].arg, c.PublicKey, c.PrivateKey)
           IN  caller' = [caller EXCEPT ![g].c = c, ![g].p = p, ![g].pc = "Get"]
        /\ UNCHANGED <<signVars, cloud, creq, gets, cret, cpc, got, adapterVars>>

\* resp, err := http.Get(c.GetQueryURL(p)), and the decoding of the body
HttpGet ==
    \E g \in DOMAIN caller :
        /\ caller[g].pc = "Get"
        /\ LET m == Method(caller[g].method)
           IN  \E visit \in VisitOrders({m.type[i].tag : i \in DOMAIN m.type}) :
                  /\ gets' = Append(gets, GetQueryURL(caller[g].c, caller[g].p, visit))
                  /\ \E st \in Statuses :
                        caller' = [caller EXCEPT ![g].url = gets'[Len(gets')], ![g].got = st,
                                                 ![g].pc = "return"]
        /\ UNCHANGED <<signVars, cloud, creq, cret, cpc, got, adapterVars>>

\* return nil, err, or return r, err
ReturnResponse ==
    \E g \in DOMAIN caller :
        /\ caller[g].pc = "return"
        /\ LET st == caller[g].got
           IN  caller' = [caller EXCEPT
                  ![g].ret = ClientReturn(caller[g].method, st.outcome,
                                          [RetCode |-> st.RetCode, Message |-> st.Message]),
                  ![g].pc = "returned"]
        /\ UNCHANGED <<signVars, cloud, creq, gets, cret, cpc, got, adapterVars>>

NextShared ==
    \/ SetKey
    \/ HttpGet
    \/ ReturnResponse
    \/ GetLoadBalancer /\ RaceReply(calls'[Len(calls')])

SpecShared == InitShared /\ [][NextShared]_vars

(***************************************************************************)
(* Properties of concurrent callers (SpecShared)                           *)
(***************************************************************************)

\* The calls operation p made, in order.
CallsBy(p) == SelectSeq(calls, LAMBDA c : c.proc = p)

\* Two method calls with the same record that got the same answer fetched the
\* same URL and returned the same pair; two operations with the same arguments
\* whose calls were answered alike made the same calls and returned the same.
OutcomeIsAFunction ==
    /\ \A g1, g2 \in DOMAIN caller :
          (/\ caller[g1].pc = "returned" /\ caller[g2].pc = "returned"
           /\ caller[g1].method = caller[g2].method
           /\ caller[g1].arg = caller[g2].arg
           /\ caller[g1].got = caller[g2].got)
          => caller[g1].url = caller[g2].url /\ caller[g1].ret = caller[g2].ret
    /\ \A p1, p2 \in DOMAIN frame :
          (/\ frame[p1].pc = "done" /\ frame[p2].pc = "done"
           /\ frame[p1].req = frame[p2].req
           /\ [i \in DOMAIN CallsBy(p1) |-> CallsBy(p1)[i].reply]
                 = [i \in DOMAIN CallsBy(p2) |-> CallsBy(p2)[i].reply])
          => /\ frame[p1].ret = frame[p2].ret
             /\ [i \in DOMAIN CallsBy(p1) |-> <<CallsBy(p1)[i].call, CallsBy(p1)[i].p>>]
                   = [i \in DOMAIN CallsBy(p2) |-> <<CallsBy(p2)[i].call, CallsBy(p2)[i].p>>]

\* C16: no step of a client method or of an adapter operation changes state
\* shared between invocations.  Across every interleaving the Cloud object
\* keeps its configured BaseURL, PublicKey, PrivateKey, Region, Zone and
\* ProjectID, the record each caller holds stays as the caller made it
\* (setKey writes to the method's copy), a step changes the locals of one
\* invocation only, and what an invocation returns is determined by its
\* arguments and the answers of the remote.
C16_NoSharedState ==
    [][/\ cloud = newUCloud(CloudConfig) /\ cloud' = cloud
       /\ \A g \in DOMAIN caller :
             caller'[g].method = caller[g].method /\ caller'[g].arg = caller[g].arg
       /\ \A p \in DOMAIN frame : frame'[p].req = frame[p].req
       /\ Cardinality({g \in DOMAIN caller : caller'[g] # caller[g]})
             + Cardinality({p \in DOMAIN frame : frame'[p] # frame[p]}) <= 1
       /\ OutcomeIsAFunction'
      ]_vars

\* Both goroutines passed a record with the caller's own credentials, their
\* GETs were answered differently, the adapter operations ran in between, and
\* all four have returned.
C16_Witness ==
    /\ \A g \in DOMAIN caller :
          /\ caller[g].pc = "returned"
          /\ caller[g].arg.vals[tPublicKey] = vPub
          /\ caller[g].p.vals[tPublicKey] = cloud.PublicKey
    /\ caller["g1"].got # caller["g2"].got
    /\ caller["g1"].ret # caller["g2"].ret
    /\ \A p \in DOMAIN frame : frame[p].pc = "done"
    /\ Len(calls) = 2 /\ calls[1].proc = "p2" /\ calls[2].proc = "p1"
    /\ calls[1].reply # calls[2].reply
    /\ Len(gets) = 2

(***************************************************************************)
(* Properties of two operations in flight (SpecRace)                       *)
(***************************************************************************)

\* The calls that take a resource away from the remote.
Removals == {"DeleteULB", "ReleaseEIP", "UnbindEIP", "DeleteVServer", "ReleaseBackend"}

\* The calls of operation p that created or bound a resource.
CreatedBy(p) ==
    {i \in CallsOf(p) :
        /\ calls[i].call \in {"CreateULB", "AllocateEIP", "BindEIP", "CreateVServer", "AllocateBackend"}
        /\ Succeeded(i)}

\* The host IDs operation p looked up, as a set.
Wanted(p) == {frame[p].uHostIDs[i] : i \in DOMAIN frame[p].uHostIDs}

\* Operation p has returned the error err # nil.
Failed(p) ==
    frame[p].pc = "done" /\ frame[p].ret.kind = "return" /\ frame[p].ret.err # NoErr

\* Operation p has returned nil.
Returned(p) ==
    frame[p].pc = "done" /\ frame[p].ret.kind = "return" /\ frame[p].ret.err = NoErr

\* C17: the create and update sequences are not atomic and nothing undoes
\* them.  (a) The only call of either operation that removes anything is the
\* ReleaseBackend of UpdateLoadBalancer, for a backend of the operation's own
\* listing whose instance is not among the instances wanted.  (b) An
\* EnsureLoadBalancer that has created the load balancer and then failed has
\* returned with fewer resources created than the sequence has steps: what it
\* created stays.  (c) Two UpdateLoadBalancer operations that have returned
\* nil have each allocated every instance wanted and absent from their own
\* listing: an instance absent from both listings of the same virtual server
\* has been allocated twice, with the same parameters.
C17_NotAtomic ==
    /\ \A i \in DOMAIN calls :
          calls[i].call \in Removals =>
             /\ calls[i].call = "ReleaseBackend"
             /\ frame[calls[i].proc].req.op = "UpdateLoadBalancer"
             /\ \E host \in DOMAIN frame[calls[i].proc].m2 :
                   /\ frame[calls[i].proc].m2[host] = calls[i].p.BackendID
                   /\ host \notin Wanted(calls[i].proc)
    /\ \A p \in DOMAIN frame :
          (/\ frame[p].req.op = "EnsureLoadBalancer"
           /\ Failed(p)
           /\ \E i \in CallsNamed(p, "CreateULB") : Succeeded(i))
          => /\ Cardinality(CreatedBy(p)) < 4 + Len(frame[p].uHostIDs)
             /\ \A i \in CallsOf(p) : ~Succeeded(i) => \A j \in CallsOf(p) : j <= i
    /\ \A p, q \in DOMAIN frame :
          (/\ p # q
           /\ frame[p].req.op = "UpdateLoadBalancer" /\ Returned(p)
           /\ frame[q].req.op = "UpdateLoadBalancer" /\ Returned(q)
           /\ frame[p].ULBID = frame[q].ULBID /\ frame[p].VServerID = frame[q].VServerID
           /\ frame[p].port = frame[q].port)
          => \A host \in (Wanted(p) \ DOMAIN frame[p].m2) \cap (Wanted(q) \ DOMAIN frame[q].m2) :
                \E i \in CreatedBy(p), j \in CreatedBy(q) :
                   /\ calls[i].call = "AllocateBackend" /\ calls[i].p.ResourceID = host
                   /\ calls[j].p = calls[i].p

\* Two UpdateLoadBalancer operations read the listing before either changed
\* anything, both returned nil, and instance c has been allocated twice as a
\* backend of the same virtual server.
C17_Witness ==
    /\ \A p \in DOMAIN frame : frame[p].req.op = "UpdateLoadBalancer" /\ Returned(p)
    /\ calls[1].call = "DescribeULB" /\ calls[2].call = "DescribeULB"
    /\ calls[1].proc # calls[2].proc
    /\ Cardinality({i \in DOMAIN calls :
          /\ calls[i].call = "AllocateBackend" /\ Succeeded(i)
          /\ calls[i].p.ResourceID = "uhost-c" /\ calls[i].p.VServerID = "vs-1"}) = 2
    /\ \A i \in DOMAIN calls : calls[i].call \in Removals => calls[i].p.BackendID = "be-1"

\* An EnsureLoadBalancer created the load balancer, failed to allocate its
\* second backend and returned, while the other operation ran to its end.
C17_LeftHalfCreated ==
    /\ frame["p1"].req.op = "EnsureLoadBalancer" /\ Failed("p1")
    /\ Cardinality(CreatedBy("p1")) = 5
    /\ frame["p2"].pc = "done"
    /\ \E i \in CallsOf("p2") : \A j \in CallsOf("p1") : j < i

\* The EnsureLoadBalancer operations that have returned nil.
Ensured == {p \in DOMAIN frame : frame[p].req.op = "EnsureLoadBalancer" /\ Returned(p)}

\* C18: EnsureLoadBalancer creates whatever its lookup found.  Once its two
\* lookups have passed, with the load balancer found or with ULBNotFound, its
\* next call is CreateULB; an operation that has returned nil has made exactly
\* one CreateULB call and one AllocateEIP call, both successful; so the k
\* operations that have returned nil have made k CreateULB calls and k
\* AllocateEIP calls between them.
C18_CreateRegardless ==
    /\ \A p \in DOMAIN frame :
          (/\ frame[p].req.op = "EnsureLoadBalancer"
           /\ frame[p].described.err \in {NoErr, ULBNotFound}
           /\ \E i \in CallsNamed(p, "DescribeUHostInstance") : Succeeded(i))
          => \/ frame[p].pc = "CreateULB"
             \/ Cardinality(CallsNamed(p, "CreateULB")) = 1
    /\ \A p \in Ensured :
          /\ Cardinality(CallsNamed(p, "CreateULB")) = 1
          /\ Cardinality(CallsNamed(p, "AllocateEIP")) = 1
          /\ \A i \in CallsNamed(p, "CreateULB") \cup CallsNamed(p, "AllocateEIP") : Succeeded(i)
    /\ \A name \in {"CreateULB", "AllocateEIP"} :
          Cardinality({i \in DOMAIN calls : calls[i].proc \in Ensured /\ calls[i].call = name})
             = Cardinality(Ensured)

\* Two EnsureLoadBalancer operations for the same service have returned nil,
\* one whose lookup found the load balancer and one whose lookup did not, and
\* two load balancers and two EIPs have been created.
C18_Witness ==
    /\ Ensured = {"p1", "p2"}
    /\ frame["p1"].described.err = NoErr
    /\ frame["p1"].described.ulbSet.Name = frame["p1"].req.name
    /\ frame["p2"].described.err = ULBNotFound
    /\ Cardinality({i \in DOMAIN calls : calls[i].call = "CreateULB" /\ Succeeded(i)}) = 2
    /\ Cardinality({i \in DOMAIN calls : calls[i].call = "AllocateEIP" /\ Succeeded(i)}) = 2

(***************************************************************************)
(* Properties of the adapter, continued (Spec)                             *)
(***************************************************************************)

\* C19: every adapter operation ends by returning a result or an error: no
\* operation ends in a panic on a nil response, a nil lookup result or an
\* empty list, whatever the remote answers.
C19_AlwaysReturns ==
    \A p \in DOMAIN frame :
        frame[p].pc = "done" => frame[p].ret.kind = "return"
=============================================================================
